---------------------------- MODULE Spec2Model ----------------------------
(***************************************************************************)
(* A model of the chipset scheduling core of vAmiga:                       *)
(*   - the Copper (src/Amiga/Computer/Agnus/Copper.{h,cpp}),                *)
(*   - Agnus' cycle loop (src/Emulator/Agnus/Agnus.cpp),                    *)
(*   - the disk controller and its drives                                  *)
(*     (src/Amiga/Computer/Paula/DiskController.cpp,                       *)
(*      src/Emulator/Drive/Drive.cpp).                                     *)
(* Each part has its own variables and its own specification; a            *)
(* specification leaves the variables of the other parts unchanged.        *)
(***************************************************************************)
EXTENDS Integers, Sequences, FiniteSets, TLC

VARIABLES
    \* --- Copper (Copper.h:17-37) and the DMA clock it is driven by
    cop,        \* the Copper object: state, skip, coplc, cdang, copins1/2, coppc, slot
    dmaClock,   \* amiga->dma.clock
    copOut,     \* what the last step did (event served, bus grant, register write)
    nPokes,     \* number of CPU register writes so far (bounded)
    \* --- wake-beam computation (Copper::nextTriggerPosition) applied to inputs
    trg,
    \* --- Agnus (Agnus.cpp): clock, pos, event slots, busOwner, dmacon
    ag,         \* the Agnus object
    agOut,      \* what the last step did
    \* --- disk controller (DiskController.cpp): FIFO, DMA state, drive head
    dc,
    dcOut,
    \* --- Agnus event tables (Agnus.cpp): bplEvent, dasEvent and their jump tables
    tb,
    \* --- drive bay (DiskController.cpp, Drive.cpp): select latch, motors, disk slots
    dv,
    dvOut,
    \* --- data-fetch window of Agnus
    dd,
    ddOut,
    \* --- out-of-band inspection
    insp

copVars == <<cop, dmaClock, copOut, nPokes>>
trgVars == <<trg>>
agVars  == <<ag, agOut>>
dcVars  == <<dc, dcOut>>
tbVars  == <<tb>>
dvVars  == <<dv, dvOut>>
ddVars  == <<dd, ddOut>>
inspVars == <<insp>>
vars    == <<cop, dmaClock, copOut, nPokes, trg, ag, agOut, dc, dcOut, tb, dv, dvOut, dd, ddOut, insp>>

-----------------------------------------------------------------------------
(* Bit arithmetic on naturals *)

RECURSIVE BitAnd(_, _)
BitAnd(a, b) ==
    IF a = 0 \/ b = 0 THEN 0
    ELSE (a % 2) * (b % 2) + 2 * BitAnd(a \div 2, b \div 2)

\* pos & ~(1 << i)
ClearBit(p, i) == IF (p \div (2 ^ i)) % 2 = 1 THEN p - 2 ^ i ELSE p

HI_WORD(x) == (x \div 65536) % 65536
LO_WORD(x) == x % 65536
REPLACE_HI_WORD(x, w) == (w % 65536) * 65536 + LO_WORD(x)
REPLACE_LO_WORD(x, w) == HI_WORD(x) * 65536 + (w % 65536)

-----------------------------------------------------------------------------
(* Copper: instruction decoding and the comparator (Copper.cpp) *)

\* Copper::illegalAddress (Copper.cpp:39-44), with cdang passed explicitly
illegalAddress(cdang, address) ==
    BitAnd(address, \h1FE) >= (IF cdang THEN \h40 ELSE \h80)

\* Copper::runComparator(beam, waitpos, mask) (Copper.cpp:134-143)
runComparator(beam, waitpos, mask) ==
    BitAnd(BitAnd(beam, \hFFFF), mask) >= BitAnd(waitpos, mask)

isMoveCmd(ins1)       == BitAnd(ins1, 1) = 0
isWaitCmd(ins1, ins2) == BitAnd(ins1, 1) = 1 /\ BitAnd(ins2, 1) = 0
isSkipCmd(ins1, ins2) == BitAnd(ins1, 1) = 1 /\ BitAnd(ins2, 1) = 1
getVPHP(ins1)         == BitAnd(ins1, \hFFFE)
getVMHM(ins2)         == BitAnd(ins2, \h7FFE)

\* The loop of Copper::nextTriggerPosition (Copper.cpp:176-183): bit i is
\* cleared while the new position is >= beam and runComparator(newPos) holds.
\* runComparator(newPos) is the one-argument overload (Copper.cpp:145-149):
\* it compares the CURRENT beam against newPos under the mask of copins2.
RECURSIVE TriggerLoop(_, _, _, _)
TriggerLoop(p, i, beam, ins2) ==
    IF i < 0 THEN p
    ELSE LET newPos == ClearBit(p, i)
         IN  IF newPos >= beam /\ runComparator(beam, newPos, getVMHM(ins2))
             THEN TriggerLoop(newPos, i - 1, beam, ins2)
             ELSE p

\* Copper::nextTriggerPosition (Copper.cpp:157-186)
nextTriggerPosition(beam, ins2) == TriggerLoop(\h1FFFF, 16, beam, ins2)

-----------------------------------------------------------------------------
(* Wake-beam computation applied to bounded inputs *)

TrgBeams == {0, \h10, \h2C40, \hFFFF, \h10000, \h1FFFF}
TrgIns1  == {\h0001, \h0021, \h2C01, \hFFFF}
TrgIns2  == {\h0000, \h00FE, \h7FFE, \hFFFE}

\* No WAIT latched
TrgIdle == [beam |-> 0, copins1 |-> 0, copins2 |-> 0, done |-> TRUE, wake |-> 0]

\* A WAIT is processed at beam trg.beam: compute the wake position
TrgApply ==
    /\ ~trg.done
    /\ trg' = [trg EXCEPT !.done = TRUE,
                          !.wake = nextTriggerPosition(trg.beam, trg.copins2)]
    /\ UNCHANGED <<copVars, agVars, dcVars, tbVars, dvVars, ddVars, inspVars>>

\* Another WAIT instruction is latched at another beam position
TrgReload ==
    /\ trg.done
    /\ \E b \in TrgBeams, i1 \in TrgIns1, i2 \in TrgIns2 :
        trg' = [beam |-> b, copins1 |-> i1, copins2 |-> i2, done |-> FALSE, wake |-> 0]
    /\ UNCHANGED <<copVars, agVars, dcVars, tbVars, dvVars, ddVars, inspVars>>

TrgNext == TrgApply \/ TrgReload

\* The comparator of the latched WAIT instruction evaluated at beam position b
WaitFiresAt(b) == runComparator(b, getVPHP(trg.copins1), getVMHM(trg.copins2))


-----------------------------------------------------------------------------
(* Copper: the event-driven state machine (Copper.cpp) *)

\* Values of Copper::state; cancelEvent sets state = 0
STATE_ZERO          == "0"
COPPER_REQUEST_DMA  == "COPPER_REQUEST_DMA"
COPPER_FETCH        == "COPPER_FETCH"
COPPER_MOVE         == "COPPER_MOVE"
COPPER_WAIT_OR_SKIP == "COPPER_WAIT_OR_SKIP"
COPPER_JMP1         == "COPPER_JMP1"
COPPER_JMP2         == "COPPER_JMP2"

\* Trigger cycle of a disabled slot
NEVER == 1000000000

\* One DMA cycle in units of the clock
DMA_CYCLE == 8

\* Scaled frame geometry and horizon of the Copper model
CopHposCnt  == 3      \* DMA cycles per line
CopNumLines == 2      \* lines per frame
MaxCopTicks == 16     \* DMA cycles executed at most
MaxPokes    == 2      \* CPU register writes at most

\* Words found in memory / written by the CPU
\*   as first word : 0020 0040 0080 = MOVE to that register,
\*                   0101 FFFF      = WAIT/SKIP for beam 0100 / FFFE
\*   as second word: even = WAIT, odd = SKIP; mask = word & 7FFE
CopWords == {\h0020, \h0040, \h0080, \h0101, \hFFFF}
LCHWords == {\h0020}
LCLWords == {\h0011}
CONWords == {0, 2}

\* Copper::advancePC (Copper.h:91)
advancePC(coppc) == BitAnd(coppc + 2, \h7FFFE)

\* Copper::scheduleEventRel (Copper.cpp:289-296)
scheduleEventRel(c, clk, delta, type) ==
    [c EXCEPT !.slot = [triggerCycle |-> clk + delta, type |-> type],
              !.state = type]

\* cancelEvent as it would be if it only reset the state and left the slot armed
cancelEventKeepsSlot(c) == [c EXCEPT !.state = STATE_ZERO]

\* Copper::cancelEvent (Copper.cpp:298-303)
cancelEvent(c) ==
    [c EXCEPT !.slot = [triggerCycle |-> NEVER, type |-> c.slot.type],
              !.state = STATE_ZERO]

NoPoke == <<>>
Result(c, poke, halt) == [c |-> c, poke |-> poke, halt |-> halt]

\* case COPPER_FETCH (Copper.cpp:320-331); w = mem.peek16(coppc)
serveFetch(c, clk, bus, w) ==
    IF bus
    THEN LET c1 == [c EXCEPT !.copins1 = w, !.coppc = advancePC(c.coppc)]
         IN  scheduleEventRel(c1, clk, 2,
                 IF isMoveCmd(c1.copins1) THEN COPPER_MOVE ELSE COPPER_WAIT_OR_SKIP)
    ELSE c

\* case COPPER_REQUEST_DMA (Copper.cpp:310-318) falls through into COPPER_FETCH
serveRequestDma(c, clk, bus, w) ==
    LET c1 == IF bus THEN scheduleEventRel(c, clk, 2, COPPER_FETCH) ELSE c
    IN  serveFetch(c1, clk, bus, w)

\* case COPPER_MOVE (Copper.cpp:333-358); w = mem.peek16(coppc)
serveMove(c, clk, bus, w) ==
    IF bus
    THEN LET c1  == [c EXCEPT !.copins2 = w, !.coppc = advancePC(c.coppc)]
             reg == BitAnd(c1.copins1, \h1FE)
         IN  IF illegalAddress(c1.cdang, reg)
             THEN Result(cancelEvent(c1), NoPoke, TRUE)
             ELSE Result(scheduleEventRel(c1, clk, 2, COPPER_FETCH),
                         <<reg, c1.copins2>>, FALSE)
    ELSE Result(c, NoPoke, FALSE)

\* case COPPER_WAIT_OR_SKIP (Copper.cpp:360-394); w = mem.peek16(coppc)
serveWaitOrSkip(c, beam, bus, w) ==
    IF bus
    THEN LET c1 == [c EXCEPT !.copins2 = w, !.coppc = advancePC(c.coppc)]
         IN  IF isWaitCmd(c1.copins1, c1.copins2)
             THEN c1
             ELSE LET compare == BitAnd(c1.copins1, \hFFFE)
                      mask    == BitAnd(c1.copins2, \h7FFE)
                      b       == BitAnd(beam, \hFFFF)
                  IN  IF BitAnd(b, mask) >= BitAnd(compare, mask)
                      THEN [c1 EXCEPT !.skip = TRUE]
                      ELSE c1
    ELSE c

\* case COPPER_JMP1 / COPPER_JMP2 (Copper.cpp:396-408)
serveJmp(c, clk, x) ==
    scheduleEventRel([c EXCEPT !.coppc = c.coplc[x]], clk, 2, COPPER_REQUEST_DMA)

\* Copper::processEvent (Copper.cpp:305-415)
processEvent(c, type, clk, beam, bus, w) ==
    CASE type = COPPER_REQUEST_DMA  -> Result(serveRequestDma(c, clk, bus, w), NoPoke, FALSE)
      [] type = COPPER_FETCH        -> Result(serveFetch(c, clk, bus, w), NoPoke, FALSE)
      [] type = COPPER_MOVE         -> serveMove(c, clk, bus, w)
      [] type = COPPER_WAIT_OR_SKIP -> Result(serveWaitOrSkip(c, beam, bus, w), NoPoke, FALSE)
      [] type = COPPER_JMP1         -> Result(serveJmp(c, clk, 0), NoPoke, FALSE)
      [] type = COPPER_JMP2         -> Result(serveJmp(c, clk, 1), NoPoke, FALSE)

\* vsyncAction as it would be if it restarted only a Copper that has an event pending
vsyncActionIfRunning(c, clk) ==
    IF c.slot.triggerCycle = NEVER THEN c ELSE scheduleEventRel(c, clk, 4, COPPER_JMP1)

\* Copper::vsyncAction (Copper.cpp:417-431)
vsyncAction(c, clk) == scheduleEventRel(c, clk, 4, COPPER_JMP1)

\* Register writes by the CPU (Copper.cpp:76-132)
pokeCOPCON(c, value)     == [c EXCEPT !.cdang = (BitAnd(value, 2) # 0)]
pokeCOPJMP(c, x)         == c
pokeCOPINS(c, value)     ==
    IF c.state = COPPER_MOVE \/ c.state = COPPER_WAIT_OR_SKIP
    THEN [c EXCEPT !.copins2 = value]
    ELSE [c EXCEPT !.copins1 = value]
pokeCOPxLCH(c, x, value) == [c EXCEPT !.coplc[x] = REPLACE_HI_WORD(c.coplc[x], value)]
pokeCOPxLCL(c, x, value) ==
    [c EXCEPT !.coplc[x] = REPLACE_LO_WORD(c.coplc[x], BitAnd(value, \hFFFE))]

-----------------------------------------------------------------------------
(* The DMA controller as seen by the Copper: clock, beam, event dispatch *)

\* amiga->dma.beam: vertical position in bits 8.., horizontal in bits 0..7
BeamAt(clk) ==
    LET cyc == clk \div DMA_CYCLE
    IN  ((cyc \div CopHposCnt) % CopNumLines) * 256 + (cyc % CopHposCnt)

\* The frame is complete when the clock reaches a multiple of the frame length
FrameStartsAt(clk) == (clk \div DMA_CYCLE) % (CopHposCnt * CopNumLines) = 0

\* The Copper slot is due
isDue(c, clk) == c.slot.triggerCycle <= clk

Out(op, ev, bus, poke, halt, vsync, x) ==
    [op |-> op, ev |-> ev, bus |-> bus, poke |-> poke, halt |-> halt,
     vsync |-> vsync, x |-> x]

\* The Copper after power-on (Copper.h:17-37, Copper.cpp:16-24): the snapshot
\* items are zeroed, skip = false, and no event is scheduled
CopperPowerOn ==
    [state |-> STATE_ZERO, skip |-> FALSE, coplc |-> [i \in 0..1 |-> 0],
     cdang |-> FALSE, copins1 |-> 0, copins2 |-> 0, coppc |-> 0,
     slot |-> [triggerCycle |-> NEVER, type |-> STATE_ZERO]]

OutInit == Out("init", "none", FALSE, NoPoke, FALSE, FALSE, 0)

\* One DMA cycle: serve the Copper slot if it is due, advance the clock and
\* the beam, and run the Copper's vsync action when the frame is complete
CopTick ==
    /\ dmaClock < MaxCopTicks * DMA_CYCLE
    /\ LET due == isDue(cop, dmaClock)
       IN  \E bus \in (IF due THEN BOOLEAN ELSE {FALSE}) :
           \E w \in (IF due /\ bus /\ cop.slot.type \notin {COPPER_JMP1, COPPER_JMP2}
                     THEN CopWords ELSE {0}) :
              LET r    == IF due
                          THEN processEvent(cop, cop.slot.type, dmaClock,
                                            BeamAt(dmaClock), bus, w)
                          ELSE Result(cop, NoPoke, FALSE)
                  clk1 == dmaClock + DMA_CYCLE
                  vs   == FrameStartsAt(clk1)
              IN  /\ cop' = IF vs THEN vsyncAction(r.c, clk1) ELSE r.c
                  /\ dmaClock' = clk1
                  /\ copOut' = Out("tick", IF due THEN cop.slot.type ELSE "none",
                                   bus, r.poke, r.halt, vs, 0)
    /\ UNCHANGED <<nPokes, trgVars, agVars, dcVars, tbVars, dvVars, ddVars, inspVars>>

CpuPoke(c, op, x) ==
    /\ nPokes < MaxPokes
    /\ nPokes' = nPokes + 1
    /\ cop' = c
    /\ copOut' = Out(op, "none", FALSE, NoPoke, FALSE, FALSE, x)
    /\ UNCHANGED <<dmaClock, trgVars, agVars, dcVars, tbVars, dvVars, ddVars, inspVars>>

CopPokeCOPCON == \E v \in CONWords : CpuPoke(pokeCOPCON(cop, v), "pokeCOPCON", 0)
CopPokeCOPJMP == \E x \in 0..1 : CpuPoke(pokeCOPJMP(cop, x), "pokeCOPJMP", x)
CopPokeCOPINS == \E v \in CopWords : CpuPoke(pokeCOPINS(cop, v), "pokeCOPINS", 0)
CopPokeCOPxLCH ==
    \E x \in 0..1, v \in LCHWords : CpuPoke(pokeCOPxLCH(cop, x, v), "pokeCOPxLCH", x)
CopPokeCOPxLCL ==
    \E x \in 0..1, v \in LCLWords : CpuPoke(pokeCOPxLCL(cop, x, v), "pokeCOPxLCL", x)

CopNext ==
    \/ CopTick
    \/ CopPokeCOPCON
    \/ CopPokeCOPJMP
    \/ CopPokeCOPINS
    \/ CopPokeCOPxLCH
    \/ CopPokeCOPxLCL


-----------------------------------------------------------------------------
(* Agnus: the cycle loop (Agnus.cpp) *)

\* Last horizontal position of a line and number of positions per line
HPOS_MAX == \hE2
HPOS_CNT == HPOS_MAX + 1

\* DMA_CYCLES(n): n DMA cycles in units of the clock (Agnus.cpp:1531, 1568)
DMA_CYCLES(n) == n * DMA_CYCLE

\* Bounds of the Agnus model
AgNumLines  == 2       \* frame.numLines()
MaxAgCycles == 470     \* DMA cycles executed at most
MaxJump     == 3       \* executeUntil is called for 0..MaxJump DMA cycles ahead

\* DMACON bits
DSKEN  == 16
BLTEN  == 64
COPEN  == 128
BPLEN  == 256
DMAEN  == 512
BLTPRI == 1024

\* Line in which sprite DMA begins (Agnus.cpp:1688, 1789)
SPR_FIRST_LINE == 25

\* The event slots of the model, in the order they are served
AgSlots ==
    <<"REG_SLOT", "CIAA_SLOT", "BPL_SLOT", "DAS_SLOT", "RAS_SLOT", "COP_SLOT", "BLT_SLOT">>

\* CIA_CYCLES(1): one CIA cycle in units of the clock
CIA_CYCLE == 40

EVENT_NONE == "EVENT_NONE"

\* The event tables bplEvent / dasEvent and their jump tables nextBplEvent /
\* nextDasEvent (Agnus.cpp:109-205, 620-767) are fields of the Agnus object.
\* A bitplane event is a number: the event id in bits 2 and up, the drawing
\* flags in bits 0 and 1; 0 is EVENT_NONE.

BplEventNames ==
    <<"BPL_L1", "BPL_L2", "BPL_L3", "BPL_L4", "BPL_L5", "BPL_L6",
      "BPL_H1", "BPL_H2", "BPL_H3", "BPL_H4", "BPL_SR", "BPL_EOL">>
BPL(name) == 4 * (CHOOSE k \in 1..Len(BplEventNames) : BplEventNames[k] = name)

AUD0EN == 1
AUD1EN == 2
AUD2EN == 4
AUD3EN == 8
SPREN  == 32

HPositions == 0..HPOS_MAX

\* bplDMA[hires][bpu][h]
bplDMATable(hires, bpu, h) ==
    IF h = HPOS_MAX THEN BPL("BPL_EOL")
    ELSE IF h > \hD8 + 7 THEN 0
    ELSE IF ~hires
    THEN CASE h % 8 = 1 /\ bpu >= 4 -> BPL("BPL_L4")
           [] h % 8 = 2 /\ bpu >= 6 -> BPL("BPL_L6")
           [] h % 8 = 3 /\ bpu >= 2 -> BPL("BPL_L2")
           [] h % 8 = 5 /\ bpu >= 3 -> BPL("BPL_L3")
           [] h % 8 = 6 /\ bpu >= 5 -> BPL("BPL_L5")
           [] h % 8 = 7 /\ bpu >= 1 -> BPL("BPL_L1")
           [] OTHER -> 0
    ELSE CASE h % 4 = 0 /\ bpu >= 4 -> BPL("BPL_H4")
           [] h % 4 = 2 /\ bpu >= 3 -> BPL("BPL_H3")
           [] h % 4 = 1 /\ bpu >= 2 -> BPL("BPL_H2")
           [] h % 4 = 3 /\ bpu >= 1 -> BPL("BPL_H1")
           [] OTHER -> 0

SprEvents ==
    <<"DAS_S0_1", "DAS_S0_2", "DAS_S1_1", "DAS_S1_2", "DAS_S2_1", "DAS_S2_2",
      "DAS_S3_1", "DAS_S3_2", "DAS_S4_1", "DAS_S4_2", "DAS_S5_1", "DAS_S5_2",
      "DAS_S6_1", "DAS_S6_2", "DAS_S7_1", "DAS_S7_2">>

\* dasDMA[dmacon][h] for all six enable bits
dasDMATable(dmacon, h) ==
    LET on(bit) == (dmacon \div bit) % 2 = 1
    IN  CASE h = \h01 -> "DAS_REFRESH"
          [] h = \h07 /\ on(DSKEN) -> "DAS_D0"
          [] h = \h09 /\ on(DSKEN) -> "DAS_D1"
          [] h = \h0B /\ on(DSKEN) -> "DAS_D2"
          [] h = \h0D /\ on(AUD0EN) -> "DAS_A0"
          [] h = \h0F /\ on(AUD1EN) -> "DAS_A1"
          [] h = \h11 /\ on(AUD2EN) -> "DAS_A2"
          [] h = \h13 /\ on(AUD3EN) -> "DAS_A3"
          [] h \in \h15..\h33 /\ h % 2 = 1 /\ on(SPREN) ->
                SprEvents[((h - \h15) \div 2) + 1]
          [] h = \hDF -> "DAS_SDMA"
          [] OTHER -> EVENT_NONE

\* The loop of updateBplJumpTable / updateDasJumpTable,
\*     for (i = end; i >= 0; i--) { nextEvent[i] = next; if (event[i]) next = i; }
\* on the pair s = [tab, next].  JumpLoop runs the iterations hi, hi-1, .. lo
\* in this order, the upper half of the range first (next is a u8 that only
\* ever holds a position of the line).
JumpStep(isEvent, s, i) ==
    [tab |-> [s.tab EXCEPT ![i] = s.next], next |-> IF isEvent[i] THEN i ELSE s.next]

\* an iteration that moves next before it stores it
JumpStepSelf(isEvent, s, i) ==
    LET n == IF isEvent[i] THEN i ELSE s.next
    IN  [tab |-> [s.tab EXCEPT ![i] = n], next |-> n]

RECURSIVE JumpLoop(_, _, _, _)
JumpLoop(isEvent, s, hi, lo) ==
    IF hi < lo THEN s
    ELSE IF hi = lo THEN JumpStep(isEvent, s, hi)
    ELSE LET mid   == (hi + lo + 1) \div 2
             upper == JumpLoop(isEvent, s, hi, mid)
         IN  IF upper.next \in HPositions
             THEN JumpLoop(isEvent, upper, mid - 1, lo)
             ELSE upper

RECURSIVE JumpLoopSelf(_, _, _, _)
JumpLoopSelf(isEvent, s, hi, lo) ==
    IF hi < lo THEN s
    ELSE IF hi = lo THEN JumpStepSelf(isEvent, s, hi)
    ELSE LET mid   == (hi + lo + 1) \div 2
             upper == JumpLoopSelf(isEvent, s, hi, mid)
         IN  IF upper.next \in HPositions
             THEN JumpLoopSelf(isEvent, upper, mid - 1, lo)
             ELSE upper

\* a jump table whose entry at an event position points to that position
updateBplJumpTableSelf(t, end) ==
    LET isEvent == [i \in HPositions |-> t.bplEvent[i] # 0]
        s == [tab |-> t.nextBplEvent, next |-> t.nextBplEvent[end]]
    IN  [t EXCEPT !.nextBplEvent = JumpLoopSelf(isEvent, s, end, 0).tab]

updateBplJumpTable(t, end) ==
    LET isEvent == [i \in HPositions |-> t.bplEvent[i] # 0]
        s == [tab |-> t.nextBplEvent, next |-> t.nextBplEvent[end]]
    IN  [t EXCEPT !.nextBplEvent = JumpLoop(isEvent, s, end, 0).tab]

updateDasJumpTable(t, end) ==
    LET isEvent == [i \in HPositions |-> t.dasEvent[i] # EVENT_NONE]
        s == [tab |-> t.nextDasEvent, next |-> t.nextDasEvent[end]]
    IN  [t EXCEPT !.nextDasEvent = JumpLoop(isEvent, s, end, 0).tab]

clearBplEvents(t) ==
    [t EXCEPT
       !.bplEvent = [i \in HPositions |-> IF i < HPOS_MAX THEN 0 ELSE @[i]],
       !.nextBplEvent = [i \in HPositions |-> IF i < HPOS_MAX THEN HPOS_MAX ELSE @[i]]]

\* bplEvent[i] | flag for a flag in {1, 2}
OrFlag(e, flag) == IF (e \div flag) % 2 = 1 THEN e ELSE e + flag

updateDrawingFlagsOnly(t, hires, scrollOdd, scrollEven) ==
    LET step == IF hires THEN 4 ELSE 8
        flagged(i, e) ==
            LET e1 == IF i >= scrollOdd /\ (i - scrollOdd) % step = 0
                      THEN OrFlag(e, 1) ELSE e
            IN  IF i >= scrollEven /\ (i - scrollEven) % step = 0
                THEN OrFlag(e1, 2) ELSE e1
    IN  [t EXCEPT !.bplEvent = [i \in HPositions |-> flagged(i, @[i])]]

updateDrawingFlags(t, hires, scrollOdd, scrollEven) ==
    updateBplJumpTable(updateDrawingFlagsOnly(t, hires, scrollOdd, scrollEven),
                       HPOS_MAX)

\* inLoresDmaAreaOdd / Even, inHiresDmaAreaOdd / Even
inDmaArea(ddf, i) ==
    \/ (i >= ddf.strtOdd /\ i < ddf.stopOdd)
    \/ (i >= ddf.strtEven /\ i < ddf.stopEven)

updateBplEvents(t, channels, hires, first, last, ddf, scrollOdd, scrollEven) ==
    LET unit == IF hires THEN 4 ELSE 8
        alloc == [i \in HPositions |->
                    IF i >= first /\ i <= last
                    THEN IF inDmaArea(ddf, i)
                         THEN bplDMATable(hires, channels, i) ELSE 0
                    ELSE t.bplEvent[i]]
        sr    == [i \in HPositions |->
                    IF /\ \/ (i >= ddf.strtEven /\ i < ddf.strtOdd)
                          \/ (i >= ddf.stopOdd /\ i < ddf.stopEven)
                       /\ i % unit = unit - 1
                       /\ alloc[i] = 0
                    THEN BPL("BPL_SR") ELSE alloc[i]]
        eol   == [sr EXCEPT ![HPOS_MAX] = BPL("BPL_EOL")]
    IN  updateDrawingFlags([t EXCEPT !.bplEvent = eol], hires, scrollOdd, scrollEven)

updateDasEvents(t, dmacon) ==
    updateDasJumpTable(
        [t EXCEPT !.dasEvent = [i \in HPositions |->
                      IF i < \h38 THEN dasDMATable(dmacon, i) ELSE @[i]]],
        \h38)

clearDasEvents(t) == updateDasEvents(t, 0)

\* The event tables as Agnus::_reset leaves them
resetTables(t) ==
    updateDasJumpTable(
        updateBplJumpTable(
            [t EXCEPT !.bplEvent = [i \in HPositions |-> bplDMATable(FALSE, 0, i)],
                      !.dasEvent = [i \in HPositions |-> dasDMATable(0, i)]],
            HPOS_MAX),
        HPOS_MAX)

\* The tables of a newly constructed Agnus
TablesZero ==
    [bplEvent |-> [i \in HPositions |-> 0],
     nextBplEvent |-> [i \in HPositions |-> 0],
     dasEvent |-> [i \in HPositions |-> EVENT_NONE],
     nextDasEvent |-> [i \in HPositions |-> 0],
     op |-> "new"]

Slot(trigger, id) == [triggerCycle |-> trigger, id |-> id]

\* scheduleAbs / scheduleRel / cancel on one slot
scheduleAbs(a, s, cycle, id) == [a EXCEPT !.slot[s] = Slot(cycle, id)]
scheduleRel(a, s, cycle, id) == scheduleAbs(a, s, a.clock + cycle, id)
cancel(a, s)                 == [a EXCEPT !.slot[s].triggerCycle = NEVER]

\* nextTrigger: the earliest trigger cycle of all slots
nextTrigger(a) ==
    CHOOSE t \in {a.slot[s].triggerCycle : s \in DOMAIN a.slot} :
        \A s \in DOMAIN a.slot : t <= a.slot[s].triggerCycle

\* scheduleNextDasEvent / scheduleNextBplEvent at the current position
scheduleNextDasEvent(a) ==
    LET next == a.nextDasEvent[a.h]
    IN  IF next # 0
        THEN scheduleRel(a, "DAS_SLOT", DMA_CYCLES(next - a.h), a.dasEvent[next])
        ELSE cancel(a, "DAS_SLOT")
scheduleNextBplEvent(a) ==
    LET next == a.nextBplEvent[a.h]
    IN  IF next # 0
        THEN scheduleRel(a, "BPL_SLOT", DMA_CYCLES(next - a.h), a.bplEvent[next])
        ELSE cancel(a, "BPL_SLOT")

\* DMACON tests: a DMA class is on if its bit and the master bit DMAEN are set
dmaBit(dmacon, bit) == (dmacon \div bit) % 2 = 1
copdma(a) == dmaBit(a.dmacon, DMAEN) /\ dmaBit(a.dmacon, COPEN)
bltdma(a) == dmaBit(a.dmacon, DMAEN) /\ dmaBit(a.dmacon, BLTEN)
bpldma(a) == dmaBit(a.dmacon, DMAEN) /\ dmaBit(a.dmacon, BPLEN)
sprdma(a) == dmaBit(a.dmacon, DMAEN) /\ dmaBit(a.dmacon, SPREN)
bltpri(a) == dmaBit(a.dmacon, BLTPRI)

\* Agnus::busIsFree<owner> (Agnus.cpp:440-467)
busIsFree(a, owner) ==
    IF a.busOwner[a.h] # "BUS_NONE" THEN FALSE
    ELSE IF owner = "BUS_COPPER"
    THEN IF ~copdma(a) THEN FALSE
         ELSE IF a.h = \hE0 THEN FALSE
         ELSE TRUE
    ELSE IF ~bltdma(a) THEN FALSE ELSE TRUE

\* allocateBus<BUS_BLITTER> as it would be without the test of bls
allocateBusIgnoresBls(a, owner) ==
    IF a.busOwner[a.h] # "BUS_NONE" THEN [a |-> a, result |-> FALSE]
    ELSE IF owner = "BUS_COPPER"
    THEN [a |-> [a EXCEPT !.busOwner[a.h] = "BUS_COPPER"], result |-> TRUE]
    ELSE IF ~bltdma(a) THEN [a |-> a, result |-> FALSE]
    ELSE [a |-> [a EXCEPT !.busOwner[a.h] = "BUS_BLITTER"], result |-> TRUE]

\* Agnus::allocateBus<owner> (Agnus.cpp:469-499)
allocateBus(a, owner) ==
    IF a.busOwner[a.h] # "BUS_NONE" THEN [a |-> a, result |-> FALSE]
    ELSE IF owner = "BUS_COPPER"
    THEN [a |-> [a EXCEPT !.busOwner[a.h] = "BUS_COPPER"], result |-> TRUE]
    ELSE IF ~bltdma(a) THEN [a |-> a, result |-> FALSE]
    ELSE IF a.bls /\ ~bltpri(a) THEN [a |-> a, result |-> FALSE]
    ELSE [a |-> [a EXCEPT !.busOwner[a.h] = "BUS_BLITTER"], result |-> TRUE]

\* doDiskDMA, doBitplaneDMA, doSpriteDMA, doCopperDMA (Agnus.cpp:501-596): the
\* consumer takes the current cycle.  overwrote records that the cycle had an
\* owner already.
takeBus(a, owner) ==
    [a EXCEPT !.busOwner[a.h] = owner,
              !.overwrote = IF a.busOwner[a.h] \notin {"BUS_NONE", owner}
                            THEN @ \cup {<<a.busOwner[a.h], owner>>} ELSE @]
doDiskDMA(a)     == takeBus(a, "BUS_DISK")
doBitplaneDMA(a) == takeBus(a, "BUS_BITPLANE")
doSpriteDMA(a)   == takeBus(a, "BUS_SPRITE")
doCopperDMA(a)   == takeBus(a, "BUS_COPPER")

\* executeFirstSpriteCycle / executeSecondSpriteCycle (Agnus.cpp:1636-1678);
\* all sprites share their vertical trigger lines in the model
executeSpriteCycle(a) ==
    IF a.v = a.sprVStop THEN doSpriteDMA([a EXCEPT !.sprDmaState = "SPR_DMA_IDLE"])
    ELSE IF a.sprDmaState = "SPR_DMA_ACTIVE" THEN doSpriteDMA(a)
    ELSE a

\* Agnus::updateSpriteDMA (Agnus.cpp:1681-1704)
updateSpriteDMA(a) ==
    LET v == a.v + 1
    IN  IF v = SPR_FIRST_LINE /\ sprdma(a) THEN [a EXCEPT !.sprVStop = SPR_FIRST_LINE]
        ELSE IF v = a.numLines - 1 THEN [a EXCEPT !.sprDmaState = "SPR_DMA_IDLE"]
        ELSE LET a1 == IF v = a.sprVStrt
                       THEN [a EXCEPT !.sprDmaState = "SPR_DMA_ACTIVE"] ELSE a
             IN  IF v = a.sprVStop
                 THEN [a1 EXCEPT !.sprDmaState = "SPR_DMA_IDLE"] ELSE a1

\* Agnus::vsyncHandler (Agnus.cpp:1834-1869): the vertical counter restarts
vsyncHandler(a) == [a EXCEPT !.v = 0]

\* Agnus::inBplDmaLine (Agnus.cpp:400-407)
inBplDmaLine(a) == a.ddfVFlop /\ a.bpu # 0 /\ bpldma(a)

\* Agnus::hsyncHandler (Agnus.cpp:1706-1832), in its stages.
\* The counters: pos.h = 0; if (++pos.v >= frame.numLines()) vsyncHandler();
hsyncCounters(a) ==
    IF a.v + 1 >= a.numLines
    THEN vsyncHandler([a EXCEPT !.h = 0, !.nHsync = a.nHsync + 1])
    ELSE [a EXCEPT !.h = 0, !.nHsync = a.nHsync + 1, !.v = a.v + 1]

\* The vertical flipflops of the display window and of the data fetch
hsyncFlipflops(a) ==
    LET flop1 == IF a.v = a.diwVstrt /\ ~a.diwVFlop THEN TRUE ELSE a.diwVFlop
        flop2 == IF a.v = a.diwVstop /\ flop1 THEN FALSE ELSE flop1
    IN  [a EXCEPT !.diwVFlop = flop2, !.ddfVFlop = (a.v # a.numLines - 1) /\ flop2]

\* The DMA status of the line to come and the work items that follow from it
hsyncDmaStatus(a) ==
    LET newBplDmaLine == inBplDmaLine(a)
        newDmaDAS ==
            IF dmaBit(a.dmacon, DMAEN)
            THEN IF a.v < SPR_FIRST_LINE \/ a.v >= a.numLines - 1
                 THEN a.dmacon % 32 ELSE a.dmacon % 64
            ELSE 0
    IN  [a EXCEPT !.bplDmaLine = newBplDmaLine, !.dmaDAS = newDmaDAS,
                  !.hsyncActions =
                      @ \cup (IF newBplDmaLine # a.bplDmaLine
                              THEN {"HSYNC_UPDATE_BPL_TABLE"} ELSE {})
                        \cup (IF a.dmaDAS # newDmaDAS
                              THEN {"HSYNC_UPDATE_DAS_TABLE"} ELSE {})]

\* The pending work items: updateBplEvents(), updateDasEvents(dmaDAS)
hsyncUpdateBpl(a) ==
    IF "HSYNC_UPDATE_BPL_TABLE" \in a.hsyncActions
    THEN updateBplEvents(a, IF inBplDmaLine(a) THEN a.bpu ELSE 0, FALSE,
                         0, HPOS_MAX, a.ddf, 0, 0)
    ELSE a
hsyncUpdateDas(a) ==
    IF "HSYNC_UPDATE_DAS_TABLE" \in a.hsyncActions
    THEN updateDasEvents(a, a.dmaDAS)
    ELSE a

\* The bus usage table is cleared
hsyncClearBus(a) ==
    [a EXCEPT !.hsyncActions = {}, !.busOwner = [i \in 0..HPOS_MAX |-> "BUS_NONE"]]

hsyncHandler(a) ==
    scheduleNextDasEvent(scheduleNextBplEvent(
        hsyncClearBus(hsyncUpdateDas(hsyncUpdateBpl(
            hsyncDmaStatus(hsyncFlipflops(hsyncCounters(a))))))))

\* serviceBPLEvent: the events BPL_L1 .. BPL_H4 fetch a bitplane word
serviceBPLEvent(a, id) ==
    scheduleNextBplEvent(IF id \div 4 \in 1..10 THEN doBitplaneDMA(a) ELSE a)

\* serviceDASEvent: disk, sprite and sprite-control events
serviceDASEvent(a, id) ==
    scheduleNextDasEvent(
        CASE id \in {"DAS_D0", "DAS_D1", "DAS_D2"} -> doDiskDMA(a)
          [] id \in {SprEvents[k] : k \in 1..Len(SprEvents)} -> executeSpriteCycle(a)
          [] id = "DAS_SDMA" -> updateSpriteDMA(a)
          [] OTHER -> a)

\* The Copper asks for the bus in every even cycle.  COP_FETCH tests
\* busIsFree<BUS_COPPER> and then fetches with doCopperDMA, COP_REQ_DMA calls
\* allocateBus<BUS_COPPER>.  copReqs collects [h, dma, granted] of all requests.
serviceCOPEvent(a, s) ==
    LET id  == a.slot[s].id
        ok  == IF id = "COP_FETCH" THEN busIsFree(a, "BUS_COPPER")
                                   ELSE allocateBus(a, "BUS_COPPER").result
        a1  == IF id = "COP_FETCH" THEN (IF ok THEN doCopperDMA(a) ELSE a)
                                   ELSE allocateBus(a, "BUS_COPPER").a
        a2  == [a1 EXCEPT !.copReqs = @ \cup {[e0 |-> a.h = \hE0, dma |-> copdma(a),
                                              free |-> a.busOwner[a.h] = "BUS_NONE",
                                              granted |-> ok]}]
    IN  scheduleAbs(a2, s, a.slot[s].triggerCycle + DMA_CYCLES(2), id)

\* The Blitter asks for the bus with allocateBus<BUS_BLITTER> in seven of
\* eight cycles.  bltReqs collects the requests and their results.
serviceBLTEvent(a, s) ==
    LET r  == allocateBus(a, "BUS_BLITTER")
        a1 == IF a.h % 8 # 0
              THEN [r.a EXCEPT !.bltReqs = @ \cup {[free |-> a.busOwner[a.h] = "BUS_NONE",
                                                   dma |-> bltdma(a), bls |-> a.bls,
                                                   pri |-> bltpri(a),
                                                   query |-> busIsFree(a, "BUS_BLITTER"),
                                                   granted |-> r.result]}]
              ELSE a
    IN  scheduleAbs(a1, s, a.slot[s].triggerCycle + DMA_CYCLES(1), a.slot[s].id)

\* Service of one due slot
serviceEvent(a, s) ==
    LET id == a.slot[s].id
    IN  CASE s = "RAS_SLOT" ->
                scheduleAbs(hsyncHandler(a), "RAS_SLOT",
                            a.slot[s].triggerCycle + DMA_CYCLES(HPOS_CNT), "RAS_HSYNC")
          [] s = "DAS_SLOT" -> serviceDASEvent(a, id)
          [] s = "BPL_SLOT" -> serviceBPLEvent(a, id)
          [] s = "COP_SLOT" -> serviceCOPEvent(a, s)
          [] s = "BLT_SLOT" -> serviceBLTEvent(a, s)
          [] s = "CIAA_SLOT" ->
                scheduleAbs(a, "CIAA_SLOT", a.slot[s].triggerCycle + CIA_CYCLE, "CIA_EXECUTE")
          [] s = "REG_SLOT" ->
                cancel([a EXCEPT !.dmacon = a.change, !.change = -1], "REG_SLOT")

\* executeEventsUntil(cycle): every due slot is served, in slot order
RECURSIVE serviceFrom(_, _, _)
serviceFrom(a, i, cycle) ==
    IF i > Len(AgSlots) THEN a
    ELSE LET s == AgSlots[i]
         IN  serviceFrom(IF a.slot[s].triggerCycle <= cycle THEN serviceEvent(a, s) ELSE a,
                         i + 1, cycle)
executeEventsUntil(a, cycle) == serviceFrom(a, 1, cycle)

\* The two halves of execute: the due events are served, then the clock and
\* the horizontal counter advance
executeEvents(a) ==
    IF nextTrigger(a) <= a.clock THEN executeEventsUntil(a, a.clock) ELSE a
advance(a) ==
    [a EXCEPT !.clock = a.clock + DMA_CYCLES(1),
              !.h = IF a.h < HPOS_MAX THEN a.h + 1 ELSE 0]

\* execute as it would be if it advanced the clock before it served the events
executeEventsAfterAdvance(a) ==
    executeEvents([a EXCEPT !.clock = a.clock + DMA_CYCLES(1),
                            !.h = IF a.h < HPOS_MAX THEN a.h + 1 ELSE 0])

\* execute as it would be with the plain increment "pos.h++"
advanceNoWrap(a) == [a EXCEPT !.clock = a.clock + DMA_CYCLES(1), !.h = a.h + 1]
executeNoWrap(a) == advanceNoWrap(executeEvents(a))

\* Agnus::execute (Agnus.cpp:1520-1545)
execute(a) == advance(executeEvents(a))

\* The loop "for (i = 0; i < dmaCycles; i++) execute()"
RECURSIVE executeTimes(_, _)
executeTimes(a, n) == IF n <= 0 THEN a ELSE executeTimes(execute(a), n - 1)

\* executeUntil as it would be if it fast-forwarded without looking at the
\* next trigger cycle
executeUntilIgnoringEvents(a, target) ==
    LET targetClock == target - (target % 8)
        dmaCycles   == (targetClock - a.clock) \div DMA_CYCLES(1)
    IN  IF dmaCycles > 0
        THEN [a EXCEPT !.clock = targetClock, !.h = a.h + dmaCycles]
        ELSE executeTimes(a, dmaCycles)

\* Agnus::executeUntil (Agnus.cpp:1564-1587)
executeUntil(a, target) ==
    LET targetClock == target - (target % 8)
        dmaCycles   == (targetClock - a.clock) \div DMA_CYCLES(1)
    IN  IF targetClock < nextTrigger(a) /\ dmaCycles > 0
        THEN [a EXCEPT !.clock = targetClock, !.h = a.h + dmaCycles]
        ELSE executeTimes(a, dmaCycles)

\* Agnus::recordRegisterChange (Agnus.cpp:1621-1629) for a DMACON value: the
\* change is recorded and the register slot is scheduled for it
recordRegisterChange(a, delay, value) ==
    scheduleAbs([a EXCEPT !.change = value], "REG_SLOT", a.clock + delay, "REG_CHANGE")

\* Agnus after _reset (Agnus.cpp:243-276) with a frame of numLines lines
AgnusResetFrame(numLines) ==
    LET a0 == [clock |-> 0, h |-> 0, v |-> 0, nHsync |-> 0, numLines |-> numLines,
               dmacon |-> 0, dmaDAS |-> 0, change |-> -1,
               bpu |-> 0, ddf |-> [strtOdd |-> 0, stopOdd |-> 0, strtEven |-> 0, stopEven |-> 0],
               diwVstrt |-> 0, diwVstop |-> 0, diwVFlop |-> FALSE, ddfVFlop |-> FALSE,
               bplDmaLine |-> FALSE, hsyncActions |-> {},
               sprVStrt |-> 0, sprVStop |-> 0, sprDmaState |-> "SPR_DMA_IDLE",
               bls |-> FALSE, waitStates |-> 0,
               overwrote |-> {}, copReqs |-> {}, bltReqs |-> {},
               bplEvent |-> resetTables(TablesZero).bplEvent,
               nextBplEvent |-> resetTables(TablesZero).nextBplEvent,
               dasEvent |-> resetTables(TablesZero).dasEvent,
               nextDasEvent |-> resetTables(TablesZero).nextDasEvent,
               busOwner |-> [i \in 0..HPOS_MAX |-> "BUS_NONE"],
               slot |-> [s \in {AgSlots[i] : i \in 1..Len(AgSlots)} |-> Slot(NEVER, EVENT_NONE)]]
        a1 == scheduleAbs(a0, "RAS_SLOT", DMA_CYCLES(HPOS_CNT), "RAS_HSYNC")
        a2 == scheduleAbs(a1, "CIAA_SLOT", CIA_CYCLE, "CIA_EXECUTE")
    IN  scheduleNextDasEvent(scheduleNextBplEvent(a2))

AgnusReset == AgnusResetFrame(AgNumLines)

AgOut(op, n, fast, shadow) == [op |-> op, n |-> n, fast |-> fast, shadow |-> shadow]
AgOutInit == AgOut("reset", 0, FALSE, AgnusReset)

\* The CPU runs Agnus for one DMA cycle
AgExecute ==
    /\ ag.clock < DMA_CYCLES(MaxAgCycles)
    /\ ag' = execute(ag)
    /\ agOut' = AgOut("execute", 1, FALSE, ag')
    /\ UNCHANGED <<copVars, trgVars, dcVars, tbVars, dvVars, ddVars, inspVars>>

\* The CPU runs Agnus up to a target clock n DMA cycles (and r clock units)
\* ahead; shadow is what n single cycles produce from the same state
AgExecuteUntil ==
    \E n \in 0..MaxJump, r \in {0, 3} :
        /\ ag.clock + DMA_CYCLES(n) <= DMA_CYCLES(MaxAgCycles)
        /\ LET target == ag.clock + DMA_CYCLES(n) + r
               tc     == target - (target % 8)
           IN  /\ ag' = executeUntil(ag, target)
               /\ agOut' = AgOut("executeUntil", n,
                                 tc < nextTrigger(ag) /\ n > 0, executeTimes(ag, n))
        /\ UNCHANGED <<copVars, trgVars, dcVars, tbVars, dvVars, ddVars, inspVars>>

\* A DMACON write is recorded to take effect two DMA cycles later
AgRecordRegisterChange ==
    \E value \in {0, DMAEN + DSKEN} :
        /\ ag.change = -1
        /\ ag.clock < DMA_CYCLES(MaxAgCycles)
        /\ ag' = recordRegisterChange(ag, DMA_CYCLES(2), value)
        /\ agOut' = AgOut("recordRegisterChange", 0, FALSE, ag')
        /\ UNCHANGED <<copVars, trgVars, dcVars, tbVars, dvVars, ddVars, inspVars>>

AgNext ==
    \/ AgExecute
    \/ AgExecuteUntil
    \/ AgRecordRegisterChange

-----------------------------------------------------------------------------
(* Agnus: the bus arbiter (Agnus.cpp:440-499, 1590-1619) *)

\* AS_CPU_CYCLES: clock units to CPU cycles (a CPU cycle is four clock units)
AS_CPU_CYCLES(cycles) == cycles \div 4

\* "if (++delay == 2) bls = true" as it would be with "== 1"
setBlsAfterOne(a, delay) == IF delay = 1 THEN [a EXCEPT !.bls = TRUE] ELSE a

\* "if (++delay == 2) bls = true" (Agnus.cpp:1606), delay already incremented
setBls(a, delay) == IF delay = 2 THEN [a EXCEPT !.bls = TRUE] ELSE a

\* The loop of executeUntilBusIsFree,
\*     do { posh = pos.h; execute(); if (++delay == 2) bls = true; }
\*     while (busOwner[posh] != BUS_NONE);
\* busWaitLoop is one pass up to execute(), busWaitTest the rest of it.
\* trace lists, for every cycle executed, its position, the value bls had
\* while it was executed and the owner the cycle got.
RECURSIVE busWaitLoop(_, _, _)
busWaitTest(a, posh, bls, delay, trace) ==
    IF a.busOwner[posh] # "BUS_NONE"
    THEN busWaitLoop(setBls(a, delay), delay,
                     Append(trace, [posh |-> posh, bls |-> bls, owner |-> a.busOwner[posh]]))
    ELSE [a |-> setBls(a, delay), posh |-> posh, delay |-> delay,
          trace |-> Append(trace, [posh |-> posh, bls |-> bls, owner |-> "BUS_NONE"])]
busWaitLoop(a, delay, trace) == busWaitTest(execute(a), a.h, a.bls, delay + 1, trace)

\* The end of executeUntilBusIsFree: bls = false, the wait states are added,
\* busOwner[posh] = BUS_CPU
busWaitEnd(w) ==
    [a |-> [w.a EXCEPT !.bls = FALSE,
                       !.waitStates = @ + AS_CPU_CYCLES(DMA_CYCLES(w.delay)),
                       !.busOwner[w.posh] = "BUS_CPU"],
     posh |-> w.posh, delay |-> w.delay, trace |-> w.trace]

\* Agnus::executeUntilBusIsFree (Agnus.cpp:1590-1619)
executeUntilBusIsFree(a) ==
    LET posh == IF a.h = 0 THEN HPOS_MAX ELSE a.h - 1
    IN  IF a.busOwner[posh] # "BUS_NONE"
        THEN busWaitEnd(busWaitLoop(a, 0, <<>>))
        ELSE [a |-> [a EXCEPT !.busOwner[posh] = "BUS_CPU"],
              posh |-> posh, delay |-> 0, trace |-> <<>>]

\* Bounds of the bus model
BusNumLines  == 313     \* frame.numLines() of the long frame
MaxBusCycles == 5739    \* DMA cycles executed at most: 25 lines and 64 cycles
CpuWindow    == 64      \* the CPU accesses the bus in the last CpuWindow cycles

\* Data-fetch windows: an overscan window that begins inside the sprite
\* cycles, and the standard window
DdfOverscan == [strtOdd |-> \h28, stopOdd |-> \hD8, strtEven |-> \h28, stopEven |-> \hD8]
DdfStandard == [strtOdd |-> \h38, stopOdd |-> \hD0, strtEven |-> \h38, stopEven |-> \hD0]

\* The configurations written to the registers after reset: DMACON, the
\* number of bitplanes, the data-fetch window, and what Copper and Blitter do
BusConfigs ==
    << [dmacon |-> DMAEN + BPLEN + SPREN + COPEN, bpu |-> 6, ddf |-> DdfOverscan,
       copper |-> "COP_FETCH", blitter |-> TRUE],
      [dmacon |-> DMAEN + BPLEN + BLTEN, bpu |-> 6, ddf |-> DdfStandard,
       copper |-> EVENT_NONE, blitter |-> TRUE],
      [dmacon |-> DMAEN + BLTEN + BLTPRI, bpu |-> 0, ddf |-> DdfStandard,
       copper |-> EVENT_NONE, blitter |-> TRUE],
      [dmacon |-> DMAEN + BLTEN, bpu |-> 0, ddf |-> DdfStandard,
       copper |-> "COP_REQ_DMA", blitter |-> FALSE] >>

\* Agnus after _reset and the register writes of configuration k; the display
\* window opens in the first sprite line
BusReset(k) ==
    LET a0 == [AgnusResetFrame(BusNumLines) EXCEPT !.dmacon = k.dmacon,
                                 !.bpu = k.bpu, !.ddf = k.ddf,
                                 !.diwVstrt = SPR_FIRST_LINE, !.diwVstop = BusNumLines,
                                 !.hsyncActions = {"HSYNC_UPDATE_BPL_TABLE"}]
        a1 == IF k.copper # EVENT_NONE THEN scheduleAbs(a0, "COP_SLOT", 0, k.copper) ELSE a0
    IN  IF k.blitter THEN scheduleAbs(a1, "BLT_SLOT", 0, "BLT_EXEC") ELSE a1

BusOut(op, before, r) ==
    [op |-> op, before |-> before, posh |-> r.posh, delay |-> r.delay, trace |-> r.trace]
NoAccess == [posh |-> 0, delay |-> 0, trace |-> <<>>]

\* Agnus runs for one DMA cycle
BusExecute ==
    /\ ag.clock < DMA_CYCLES(MaxBusCycles)
    /\ ag' = execute(ag)
    /\ agOut' = BusOut("execute", 0, NoAccess)
    /\ UNCHANGED <<copVars, trgVars, dcVars, tbVars, dvVars, ddVars, inspVars>>

\* The CPU accesses the bus, once per line
BusExecuteUntilBusIsFree ==
    /\ ag.clock < DMA_CYCLES(MaxBusCycles)
    /\ ag.clock >= DMA_CYCLES(MaxBusCycles - CpuWindow)
    /\ \A i \in HPositions : ag.busOwner[i] # "BUS_CPU"
    /\ \E r \in {executeUntilBusIsFree(ag)} :
           /\ ag' = r.a
           /\ agOut' = BusOut("executeUntilBusIsFree", ag, r)
    /\ UNCHANGED <<copVars, trgVars, dcVars, tbVars, dvVars, ddVars, inspVars>>

BusNext ==
    \/ BusExecute
    \/ BusExecuteUntilBusIsFree

-----------------------------------------------------------------------------
(* Disk controller: the 6-byte FIFO between the drive head and disk DMA   *)
(* (DiskController.cpp).  The FIFO register is kept as its bytes:         *)
(* fifo[i] is (fifo >> 8*i) & 0xFF.                                       *)

FifoWidth == 6
FifoBytes == {\h12, \h44, \h89}

DRIVE_DMA_OFF   == "DRIVE_DMA_OFF"
DRIVE_DMA_WAIT  == "DRIVE_DMA_WAIT"
DRIVE_DMA_READ  == "DRIVE_DMA_READ"
DRIVE_DMA_WRITE == "DRIVE_DMA_WRITE"
DRIVE_DMA_FLUSH == "DRIVE_DMA_FLUSH"

HI_BYTE(x) == (x \div 256) % 256
LO_BYTE(x) == x % 256
HI_LO(hi, lo) == hi * 256 + lo

fifoIsEmpty(d) == d.fifoCount = 0
fifoHasWord(d) == d.fifoCount >= 2
fifoCanStoreWord(d) == d.fifoCount <= 4

\* fifo = (fifo << 8) | byte
ShiftIn(fifo, byte) ==
    [i \in 0..(FifoWidth - 1) |-> IF i = 0 THEN byte ELSE fifo[i - 1]]

\* clearFifo zeroing the bytes but not the count
clearFifoBytesOnly(d) ==
    [d EXCEPT !.fifo = [i \in 0..(FifoWidth - 1) |-> 0]]

clearFifo(d) ==
    [d EXCEPT !.fifo = [i \in 0..(FifoWidth - 1) |-> 0], !.fifoCount = 0]

readFifoNewest(d) ==
    [d |-> [d EXCEPT !.fifoCount = d.fifoCount - 1], value |-> d.fifo[0]]

\* asserts records whether every assert on the FIFO has held so far
\* (DiskController.cpp:416, 426, 439, 575, 601, 635)
asserted(d, condition) == [d EXCEPT !.asserts = @ /\ condition]

readFifo(d) ==
    LET count == d.fifoCount - 1
    IN  [d |-> [asserted(d, d.fifoCount > 0) EXCEPT !.fifoCount = count],
         value |-> IF count \in DOMAIN d.fifo THEN d.fifo[count] ELSE 0]

writeFifoDropsOne(d, byte) ==
    LET count == IF d.fifoCount = 6 THEN d.fifoCount - 1 ELSE d.fifoCount
    IN  [d EXCEPT !.fifo = ShiftIn(d.fifo, byte), !.fifoCount = count + 1]

writeFifo(d, byte) ==
    LET count == IF d.fifoCount = 6 THEN d.fifoCount - 2 ELSE d.fifoCount
    IN  [asserted(d, d.fifoCount <= 6) EXCEPT
             !.fifo = ShiftIn(d.fifo, byte), !.fifoCount = count + 1]

\* readFifo16 taking the older byte as the low byte
readFifo16LowFirst(d) ==
    LET count == d.fifoCount - 2
    IN  [d |-> [d EXCEPT !.fifoCount = count],
         value |-> HI_LO(d.fifo[count], d.fifo[count + 1])]

readFifo16(d) ==
    LET count == d.fifoCount - 2
    IN  [d |-> [asserted(d, fifoHasWord(d)) EXCEPT !.fifoCount = count],
         value |-> IF count \in DOMAIN d.fifo
                   THEN HI_LO(d.fifo[count + 1], d.fifo[count]) ELSE 0]

compareFifo(d, word) ==
    fifoHasWord(d) /\ HI_LO(d.fifo[1], d.fifo[0]) = word

\* The bytes successive readFifo calls return until the FIFO is empty.
RECURSIVE Drain(_)
Drain(d) ==
    IF fifoIsEmpty(d) THEN <<>>
    ELSE LET r == readFifo(d) IN <<r.value>> \o Drain(r.d)

\* The selected drive: one track of bytes under a rotating head.
Tracks == { <<\h12, \h34, \h44, \h89>>, <<\h44, \h44, \h89, \h89>>,
            <<\h89, \h44, \h89, \h12>> }
ChipWords == <<\h4489, \h1234>>
DsklenWords == {0, \h8002, \hC002, \h8001}
DsksyncWords == {\h4489, \h8944}
MaxAcceleration == 2
MaxDcOps == 7

rotate(d) ==
    [d EXCEPT !.offset = IF d.offset + 1 = Len(d.track) THEN 0 ELSE d.offset + 1]

readHead(d) ==
    [d |-> rotate(d), value |-> d.track[d.offset + 1]]

writeHead(d, value) ==
    rotate([d EXCEPT !.track[d.offset + 1] = value])

raiseIrq(d, irq) == [d EXCEPT !.irq[irq] = @ + 1]

getSelectedDrive(d) == IF d.selected < 0 THEN "NULL" ELSE "df"

\* executeFifo comparing the low word without looking at fifoCount
executeFifoIgnoresCount(d) ==
    IF getSelectedDrive(d) = "NULL" THEN d
    ELSE CASE d.state = DRIVE_DMA_OFF -> rotate(d)
           [] d.state \in {DRIVE_DMA_WAIT, DRIVE_DMA_READ} ->
                LET r  == readHead(d)
                    d1 == writeFifo([r.d EXCEPT !.incoming = r.value], r.value)
                    d2 == [d1 EXCEPT !.syncFlag = (HI_LO(d1.fifo[1], d1.fifo[0]) = d1.dsksync)]
                IN  IF d2.syncFlag
                    THEN LET d3 == raiseIrq(d2, "INT_DSKSYN")
                         IN  IF d3.state = DRIVE_DMA_WAIT
                             THEN clearFifo([d3 EXCEPT !.state = DRIVE_DMA_READ])
                             ELSE d3
                    ELSE d2
           [] d.state \in {DRIVE_DMA_WRITE, DRIVE_DMA_FLUSH} ->
                IF fifoIsEmpty(d)
                THEN IF d.state = DRIVE_DMA_FLUSH
                     THEN [d EXCEPT !.state = DRIVE_DMA_OFF] ELSE d
                ELSE LET r == readFifo(d) IN writeHead(r.d, r.value)

executeFifo(d) ==
    IF getSelectedDrive(d) = "NULL" THEN d
    ELSE CASE d.state = DRIVE_DMA_OFF -> rotate(d)
           [] d.state \in {DRIVE_DMA_WAIT, DRIVE_DMA_READ} ->
                LET r  == readHead(d)
                    d1 == writeFifo([r.d EXCEPT !.incoming = r.value], r.value)
                    d2 == [d1 EXCEPT !.syncFlag = compareFifo(d1, d1.dsksync)]
                IN  IF d2.syncFlag
                    THEN LET d3 == raiseIrq(d2, "INT_DSKSYN")
                         IN  IF d3.state = DRIVE_DMA_WAIT
                             THEN clearFifo([d3 EXCEPT !.state = DRIVE_DMA_READ])
                             ELSE d3
                    ELSE d2
           [] d.state \in {DRIVE_DMA_WRITE, DRIVE_DMA_FLUSH} ->
                IF fifoIsEmpty(d)
                THEN IF d.state = DRIVE_DMA_FLUSH
                     THEN [d EXCEPT !.state = DRIVE_DMA_OFF] ELSE d
                ELSE LET r == readFifo(d) IN writeHead(r.d, r.value)

\* Chip memory: MemWords words, word i at address 2*i, filled with ChipWords
MemWords == MaxDcOps * MaxAcceleration
ChipAddr(ptr) == (ptr \div 2) % MemWords
ChipMemory == [i \in 0..(MemWords - 1) |-> ChipWords[(i % Len(ChipWords)) + 1]]

\* Agnus::doDiskDMA(word) / doDiskDMA(): one word to or from chip memory
doDiskDMAWrite(d, word) ==
    [d EXCEPT !.mem[ChipAddr(d.dskpt)] = word, !.dskpt = @ + 2]
doDiskDMARead(d) ==
    [d |-> [d EXCEPT !.dskpt = @ + 2], value |-> d.mem[ChipAddr(d.dskpt)]]

\* Paula::raiseIrq(src, trigger): the interrupt is posted, to be raised
\* after the given number of cycles
raiseIrqDelayed(d, irq, delay) == [d EXCEPT !.posted = Append(@, <<irq, delay>>)]

\* Drive::readHead16, Drive::writeHead16 (Drive.cpp:351-373)
readHead16(d) ==
    LET r1 == readHead(d)
        r2 == readHead(r1.d)
    IN  [d |-> r2.d, value |-> HI_LO(r1.value, r2.value)]

writeHead16(d, value) == writeHead(writeHead(d, HI_BYTE(value)), LO_BYTE(value))

\* Drive::findSyncMark (Drive.cpp:393-404)
RECURSIVE findSyncMarkLoop(_, _)
findSyncMarkLoop(d, i) ==
    IF i >= Len(d.track) THEN d
    ELSE LET r1 == readHead(d)
         IN  IF r1.value # \h44 THEN findSyncMarkLoop(r1.d, i + 1)
             ELSE LET r2 == readHead(r1.d)
                  IN  IF r2.value # \h89 THEN findSyncMarkLoop(r2.d, i + 1)
                      ELSE r2.d

findSyncMark(d) == findSyncMarkLoop(d, 0)

\* DiskController::performTurboRead, performTurboWrite (DiskController.cpp:754-797)
RECURSIVE performTurboReadLoop(_, _)
performTurboReadLoop(d, i) ==
    IF i >= BitAnd(d.dsklen, \h3FFF) THEN d
    ELSE LET r == readHead16(d)
         IN  performTurboReadLoop(doDiskDMAWrite(r.d, r.value), i + 1)

performTurboRead(d) == performTurboReadLoop(d, 0)

RECURSIVE performTurboWriteLoop(_, _)
performTurboWriteLoop(d, i) ==
    IF i >= BitAnd(d.dsklen, \h3FFF) THEN d
    ELSE LET r == doDiskDMARead(d)
         IN  performTurboWriteLoop(writeHead16(r.d, r.value), i + 1)

performTurboWrite(d) == performTurboWriteLoop(d, 0)

\* performTurboDMA raising the block interrupt at once
performTurboDMAIrqAtOnce(d) ==
    IF BitAnd(d.dsklen, \h3FFF) = 0 THEN d
    ELSE IF d.state \notin {DRIVE_DMA_WAIT, DRIVE_DMA_READ, DRIVE_DMA_WRITE} THEN d
    ELSE LET d1 == CASE d.state = DRIVE_DMA_WAIT  -> performTurboRead(findSyncMark(d))
                     [] d.state = DRIVE_DMA_READ  -> performTurboRead(d)
                     [] d.state = DRIVE_DMA_WRITE -> performTurboWrite(d)
         IN  [raiseIrq(d1, "INT_DSKBLK") EXCEPT !.state = DRIVE_DMA_OFF]

\* DiskController::performTurboDMA (DiskController.cpp:722-752)
performTurboDMA(d) ==
    IF BitAnd(d.dsklen, \h3FFF) = 0 THEN d
    ELSE IF d.state \notin {DRIVE_DMA_WAIT, DRIVE_DMA_READ, DRIVE_DMA_WRITE} THEN d
    ELSE LET d1 == CASE d.state = DRIVE_DMA_WAIT  -> performTurboRead(findSyncMark(d))
                     [] d.state = DRIVE_DMA_READ  -> performTurboRead(d)
                     [] d.state = DRIVE_DMA_WRITE -> performTurboWrite(d)
         IN  [raiseIrqDelayed(d1, "INT_DSKBLK", DMA_CYCLES(512))
                 EXCEPT !.state = DRIVE_DMA_OFF]

\* The end of pokeDSKLEN: a selected turbo drive transfers at once
turboDMAIfTurboDrive(d) ==
    IF getSelectedDrive(d) # "NULL" /\ d.turbo THEN performTurboDMA(d) ELSE d

\* pokeDSKLEN taking the WRITE bit from the new value alone
pokeDSKLENWriteBitOnce(d, newDskLen, wordsync) ==
    LET oldDsklen == d.dsklen
        d1 == [d EXCEPT !.dsklen = newDskLen]
    IN  turboDMAIfTurboDrive(
        IF BitAnd(newDskLen, \h8000) = 0
        THEN clearFifo([d1 EXCEPT !.state = DRIVE_DMA_OFF])
        ELSE IF BitAnd(BitAnd(oldDsklen, newDskLen), \h8000) # 0
        THEN IF BitAnd(newDskLen, \h4000) # 0
             THEN clearFifo([d1 EXCEPT !.state = DRIVE_DMA_WRITE])
             ELSE IF wordsync
                  THEN clearFifo([d1 EXCEPT !.state = DRIVE_DMA_WAIT])
                  ELSE clearFifo([d1 EXCEPT !.state = DRIVE_DMA_READ])
        ELSE d1)

\* pokeDSKLEN enabling DMA on a single write with bit 15 set
pokeDSKLENSingleWrite(d, newDskLen, wordsync) ==
    LET oldDsklen == d.dsklen
        d1 == [d EXCEPT !.dsklen = newDskLen]
    IN  turboDMAIfTurboDrive(
        IF BitAnd(newDskLen, \h8000) = 0
        THEN clearFifo([d1 EXCEPT !.state = DRIVE_DMA_OFF])
        ELSE IF BitAnd(BitAnd(oldDsklen, newDskLen), \h4000) # 0
             THEN clearFifo([d1 EXCEPT !.state = DRIVE_DMA_WRITE])
             ELSE IF wordsync
                  THEN clearFifo([d1 EXCEPT !.state = DRIVE_DMA_WAIT])
                  ELSE clearFifo([d1 EXCEPT !.state = DRIVE_DMA_READ]))

\* DiskController::pokeDSKLEN (DiskController.cpp:210-268); wordsync is bit 10
\* of ADKCON
pokeDSKLEN(d, newDskLen, wordsync) ==
    LET oldDsklen == d.dsklen
        d1 == [d EXCEPT !.dsklen = newDskLen]
    IN  turboDMAIfTurboDrive(
        IF BitAnd(newDskLen, \h8000) = 0
        THEN clearFifo([d1 EXCEPT !.state = DRIVE_DMA_OFF])
        ELSE IF BitAnd(BitAnd(oldDsklen, newDskLen), \h8000) # 0
        THEN IF BitAnd(BitAnd(oldDsklen, newDskLen), \h4000) # 0
             THEN clearFifo([d1 EXCEPT !.state = DRIVE_DMA_WRITE])
             ELSE IF wordsync
                  THEN clearFifo([d1 EXCEPT !.state = DRIVE_DMA_WAIT])
                  ELSE clearFifo([d1 EXCEPT !.state = DRIVE_DMA_READ])
        ELSE d1)

pokeDSKSYNC(d, value) == [d EXCEPT !.dsksync = value]

PRBdidChange(d, sel) == [d EXCEPT !.selected = sel]

decDsklen(d) == [d EXCEPT !.dsklen = (@ + 65535) % 65536]

RECURSIVE performDMAReadLoop(_, _)
performDMAReadLoop(d, remaining) ==
    LET r  == readFifo16(d)
        d1 == decDsklen(doDiskDMAWrite(r.d, r.value))
    IN  IF BitAnd(d1.dsklen, \h3FFF) = 0
        THEN [raiseIrq(d1, "INT_DSKBLK") EXCEPT !.state = DRIVE_DMA_OFF]
        ELSE IF remaining - 1 # 0
             THEN LET d2 == executeFifo(executeFifo(d1))
                  IN  performDMAReadLoop(asserted(d2, fifoHasWord(d2)), remaining - 1)
             ELSE d1

\* performDMARead starting without looking at the FIFO
performDMAReadUnguarded(d) == performDMAReadLoop(d, d.acceleration)

performDMARead(d) ==
    IF ~fifoHasWord(d) THEN d ELSE performDMAReadLoop(d, d.acceleration)

\* flushFifo emptying the FIFO without writing its bytes to the drive
flushFifoDiscards(d) == clearFifo(d)

RECURSIVE flushFifo(_)
flushFifo(d) ==
    IF fifoIsEmpty(d) THEN d
    ELSE LET r == readFifo(d) IN flushFifo(writeHead(r.d, r.value))

RECURSIVE performDMAWriteLoop(_, _)
performDMAWriteLoop(d, remaining) ==
    LET r  == doDiskDMARead(d)
        d0 == asserted(r.d, r.d.fifoCount <= 4)
        d1 == decDsklen(writeFifo(writeFifo(d0, HI_BYTE(r.value)), LO_BYTE(r.value)))
    IN  IF BitAnd(d1.dsklen, \h3FFF) = 0
        THEN [flushFifo(raiseIrq(d1, "INT_DSKBLK")) EXCEPT !.state = DRIVE_DMA_OFF]
        ELSE IF remaining - 1 # 0
             THEN LET d2 == executeFifo(executeFifo(d1))
                  IN  performDMAWriteLoop(asserted(d2, fifoCanStoreWord(d2)),
                                          remaining - 1)
             ELSE d1

\* performDMAWrite leaving the last bytes to the rotate events (one word)
performDMAWriteFlushLater(d) ==
    IF ~fifoCanStoreWord(d) THEN d
    ELSE LET r  == doDiskDMARead(d)
             d1 == decDsklen(writeFifo(writeFifo(r.d, HI_BYTE(r.value)),
                                       LO_BYTE(r.value)))
         IN  IF BitAnd(d1.dsklen, \h3FFF) = 0
             THEN [raiseIrq(d1, "INT_DSKBLK") EXCEPT !.state = DRIVE_DMA_FLUSH]
             ELSE d1

performDMAWrite(d) ==
    IF ~fifoCanStoreWord(d) THEN d ELSE performDMAWriteLoop(d, d.acceleration)

\* performDMA treating DMA_WAIT like DMA_READ
performDMAWhileWaiting(d) ==
    IF getSelectedDrive(d) = "NULL" THEN d
    ELSE IF BitAnd(d.dsklen, \h3FFF) = 0 THEN d
    ELSE IF d.state \notin {DRIVE_DMA_WAIT, DRIVE_DMA_READ, DRIVE_DMA_WRITE} THEN d
    ELSE IF d.state # DRIVE_DMA_WRITE THEN performDMARead(d)
    ELSE performDMAWrite(d)

performDMA(d) ==
    IF getSelectedDrive(d) = "NULL" THEN d
    ELSE IF BitAnd(d.dsklen, \h3FFF) = 0 THEN d
    ELSE IF d.state # DRIVE_DMA_READ /\ d.state # DRIVE_DMA_WRITE THEN d
    ELSE IF d.state = DRIVE_DMA_READ THEN performDMARead(d)
    ELSE performDMAWrite(d)

serviceDiskEvent(d) == executeFifo(d)

DiskControllerReset(track, speed) ==
    [fifo |-> [i \in 0..(FifoWidth - 1) |-> 0], fifoCount |-> 0,
     state |-> DRIVE_DMA_OFF, syncFlag |-> FALSE, dsksync |-> \h4489,
     selected |-> -1, dsklen |-> 0, incoming |-> 0, acceleration |-> 1,
     track |-> track, offset |-> 0, speed |-> speed,
     irq |-> [INT_DSKSYN |-> 0, INT_DSKBLK |-> 0], mem |-> ChipMemory, dskpt |-> 0,
     turbo |-> FALSE, posted |-> <<>>, asserts |-> TRUE]

\* What the last operation was, the controller it was applied to, the byte
\* it was given and the value it returned.  pushed and popped follow one
\* round trip: the bytes written since the FIFO was last cleared, at most
\* six of them, and the bytes read one by one after the last of them;
\* inOrder is false once the operations since the clear are no round trip.
DcOut(op, before, byte, out, pushed, popped, inOrder, n) ==
    [op |-> op, before |-> before, byte |-> byte, out |-> out,
     pushed |-> pushed, popped |-> popped, inOrder |-> inOrder, n |-> n]

DcOutInit(d) == DcOut("reset", d, 0, 0, <<>>, <<>>, TRUE, 0)

NoRoundTrip(op, before, byte, out) ==
    DcOut(op, before, byte, out, <<>>, <<>>, FALSE, 0)

FifoClear ==
    /\ dc' = clearFifo(dc)
    /\ dcOut' = DcOut("clearFifo", dc, 0, 0, <<>>, <<>>, TRUE, 0)
    /\ UNCHANGED <<copVars, trgVars, agVars, tbVars, dvVars, ddVars, inspVars>>

FifoWrite ==
    /\ dc.fifoCount <= 6
    /\ \E byte \in FifoBytes :
        /\ dc' = writeFifo(dc, byte)
        /\ dcOut' = IF dcOut.inOrder /\ dcOut.popped = <<>> /\ Len(dcOut.pushed) < 6
                    THEN DcOut("writeFifo", dc, byte, 0,
                               Append(dcOut.pushed, byte), <<>>, TRUE, 0)
                    ELSE NoRoundTrip("writeFifo", dc, byte, 0)
    /\ UNCHANGED <<copVars, trgVars, agVars, tbVars, dvVars, ddVars, inspVars>>

FifoRead ==
    /\ dc.fifoCount > 0
    /\ LET r == readFifo(dc)
       IN  /\ dc' = r.d
           /\ dcOut' = IF dcOut.inOrder
                       THEN DcOut("readFifo", dc, 0, r.value, dcOut.pushed,
                                  Append(dcOut.popped, r.value), TRUE, 0)
                       ELSE NoRoundTrip("readFifo", dc, 0, r.value)
    /\ UNCHANGED <<copVars, trgVars, agVars, tbVars, dvVars, ddVars, inspVars>>

FifoRead16 ==
    /\ fifoHasWord(dc)
    /\ LET r == readFifo16(dc)
       IN  /\ dc' = r.d
           /\ dcOut' = NoRoundTrip("readFifo16", dc, 0, r.value)
    /\ UNCHANGED <<copVars, trgVars, agVars, tbVars, dvVars, ddVars, inspVars>>

FifoNext ==
    \/ FifoClear
    \/ FifoWrite
    \/ FifoRead
    \/ FifoRead16

DcStep(op, d, byte) ==
    /\ dcOut.n < MaxDcOps
    /\ dc' = d
    /\ dcOut' = DcOut(op, dc, byte, 0, <<>>, <<>>, TRUE, dcOut.n + 1)
    /\ UNCHANGED <<copVars, trgVars, agVars, tbVars, dvVars, ddVars, inspVars>>

DcPRBdidChange ==
    \E sel \in {-1, 0} :
        /\ sel # dc.selected
        /\ DcStep("PRBdidChange",
                  [PRBdidChange(dc, sel) EXCEPT
                      !.acceleration = IF sel < 0 THEN @ ELSE dc.speed], 0)

\* ADKCON is read only by a write that enables reading; elsewhere its bit 10
\* is taken as clear.
ReadsWordsync(d, value) ==
    /\ BitAnd(BitAnd(d.dsklen, value), \h8000) # 0
    /\ BitAnd(BitAnd(d.dsklen, value), \h4000) = 0

DcPokeDSKLEN ==
    \E value \in DsklenWords, wordsync \in BOOLEAN :
        /\ wordsync => ReadsWordsync(dc, value)
        /\ DcStep("pokeDSKLEN", pokeDSKLEN(dc, value, wordsync),
                  IF wordsync THEN value + 65536 ELSE value)

DcPokeDSKSYNC ==
    \E value \in DsksyncWords :
        /\ value # dc.dsksync
        /\ DcStep("pokeDSKSYNC", pokeDSKSYNC(dc, value), 0)

DcServiceDiskEvent == DcStep("serviceDiskEvent", serviceDiskEvent(dc), 0)

DcPerformDMA == DcStep("performDMA", performDMA(dc), 0)

DcNext ==
    \/ DcPRBdidChange
    \/ DcPokeDSKLEN
    \/ DcPokeDSKSYNC
    \/ DcServiceDiskEvent
    \/ DcPerformDMA

-----------------------------------------------------------------------------
(* Drive bay: the select latch, the drive motors and the disk slots       *)
(* (DiskController.cpp:151-186, 330-403; Drive.cpp:268-287, 532-626)      *)

NumDrives == 4
DriveNrs == 0..(NumDrives - 1)

\* Bounds of the drive-bay model: the horizon in DMA cycles and the distance
\* in DMA cycles between two instants at which the CPU or the user acts
MaxDrvCycles == 130
OpEvery == 40

\* PRB: /MTR /SEL3 /SEL2 /SEL1 /SEL0 /SIDE DIR STEP (Drive.cpp:575-577)
SelMask(nr) == \h08 * (2 ^ nr)
FALLING_EDGE(old, new) == old /\ ~new

\* The PRB values written: /MTR, /SEL0 and /SEL1 vary, the other bits are high
PrbValues == { \h67 + m * \h80 + s0 * \h08 + s1 * \h10 : m \in 0..1, s0 \in 0..1, s1 \in 0..1 }

isSelected(prb, nr) == BitAnd(prb, SelMask(nr)) = 0

\* DiskController::spinning() (DiskController.cpp:105-110)
spinning(v) == \E nr \in DriveNrs : v.motor[nr]

hasEvent(v, s) == v.slot[s].triggerCycle # NEVER

\* Drive::PRBdidChange changing the motor while the select line is low
DrivePRBdidChangeOnLevel(motor, nr, oldValue, newValue) ==
    LET oldMtr == BitAnd(oldValue, \h80) # 0
        newMtr == BitAnd(newValue, \h80) # 0
        newSel == BitAnd(newValue, SelMask(nr)) # 0
    IN  IF ~newSel
        THEN IF ~oldMtr \/ ~newMtr THEN TRUE
             ELSE IF oldMtr THEN FALSE ELSE motor
        ELSE motor

\* Drive::PRBdidChange (Drive.cpp:573-626), the motor of drive nr
DrivePRBdidChange(motor, nr, oldValue, newValue) ==
    LET oldMtr == BitAnd(oldValue, \h80) # 0
        oldSel == BitAnd(oldValue, SelMask(nr)) # 0
        newMtr == BitAnd(newValue, \h80) # 0
        newSel == BitAnd(newValue, SelMask(nr)) # 0
    IN  IF FALLING_EDGE(oldSel, newSel)
        THEN IF ~oldMtr \/ ~newMtr THEN TRUE
             ELSE IF oldMtr THEN FALSE ELSE motor
        ELSE motor

\* The loop over the connected drives (DiskController.cpp:341-349)
RECURSIVE informDrives(_, _, _, _)
informDrives(v, i, oldValue, newValue) ==
    IF i >= NumDrives THEN v
    ELSE IF ~v.connected[i] THEN informDrives(v, i + 1, oldValue, newValue)
    ELSE LET v1 == [v EXCEPT !.motor[i] = DrivePRBdidChange(@, i, oldValue, newValue)]
             v2 == IF isSelected(newValue, i) THEN [v1 EXCEPT !.selected = i] ELSE v1
         IN  informDrives(v2, i + 1, oldValue, newValue)

\* DiskController::PRBdidChange leaving the disk slot alone when no motor spins
DiskControllerPRBdidChangeNoCancel(v, oldValue, newValue) ==
    LET v1 == informDrives([v EXCEPT !.prb = newValue, !.selected = -1], 0,
                           oldValue, newValue)
    IN  IF spinning(v1) /\ ~hasEvent(v1, "DSK_SLOT")
        THEN scheduleRel(v1, "DSK_SLOT", DMA_CYCLES(56), "DSK_ROTATE")
        ELSE v1

\* DiskController::PRBdidChange (DiskController.cpp:330-359)
DiskControllerPRBdidChange(v, oldValue, newValue) ==
    LET v1 == informDrives([v EXCEPT !.prb = newValue, !.selected = -1], 0,
                           oldValue, newValue)
    IN  IF ~spinning(v1) THEN cancel(v1, "DSK_SLOT")
        ELSE IF ~hasEvent(v1, "DSK_SLOT")
             THEN scheduleRel(v1, "DSK_SLOT", DMA_CYCLES(56), "DSK_ROTATE")
             ELSE v1

\* DiskController::setConnected (DiskController.cpp:131-142)
setConnected(v, df, value) ==
    IF df = 0 /\ ~value THEN v ELSE [v EXCEPT !.connected[df] = value]

\* DiskController::serviceDiskEvent (DiskController.cpp:362-373), the disk
\* slot; what executeFifo does to the controller is serviceDiskEvent above
serviceDiskEventSlot(v) ==
    IF v.fifoBuffering
    THEN scheduleRel(v, "DSK_SLOT", DMA_CYCLES(56), "DSK_ROTATE")
    ELSE v

\* The drive bay after reset: PRB is 0xFF, no drive is selected, no motor
\* spins, both slots are empty; df0 is connected and holds a disk.
DriveBayReset ==
    [prb |-> \hFF, selected |-> -1, clock |-> 0,
     connected |-> [nr \in DriveNrs |-> nr = 0],
     motor |-> [nr \in DriveNrs |-> FALSE],
     fifoBuffering |-> TRUE,
     slot |-> [DSK_SLOT |-> Slot(NEVER, EVENT_NONE),
               DCH_SLOT |-> Slot(NEVER, EVENT_NONE)],
     dchData |-> 0,
     disk |-> [nr \in DriveNrs |-> IF nr = 0 THEN "disk1" ELSE "NULL"],
     diskToInsert |-> "NULL",
     dskchange |-> [nr \in DriveNrs |-> FALSE],
     cylinder |-> [nr \in DriveNrs |-> 0]]

\* What the last operation was, the drive bay it was applied to and its
\* arguments
DvOutArg(op, before, arg) == [op |-> op, before |-> before, arg |-> arg]
DvOut(op, before) == DvOutArg(op, before, <<>>)
DvOutInit == DvOut("reset", DriveBayReset)

\* The next instant after clock at which the CPU or the user may act
OpPeriod == DMA_CYCLES(OpEvery)
NextOpInstant(clock) == ((clock \div OpPeriod) + 1) * OpPeriod

\* The CIA reports a change of PRB
DvPRBdidChange ==
    /\ dv.clock % OpPeriod = 0
    /\ \E newValue \in PrbValues :
        /\ newValue # dv.prb
        /\ dv' = DiskControllerPRBdidChange(dv, dv.prb, newValue)
        /\ dvOut' = DvOut("PRBdidChange", dv)
    /\ UNCHANGED <<copVars, trgVars, agVars, dcVars, tbVars, ddVars, inspVars>>

DvSetConnected ==
    /\ dv.clock % OpPeriod = 0
    /\ \E df \in {0, 1}, value \in BOOLEAN :
        /\ dv.connected[df] # value
        /\ dv' = setConnected(dv, df, value)
        /\ dvOut' = DvOut("setConnected", dv)
    /\ UNCHANGED <<copVars, trgVars, agVars, dcVars, tbVars, ddVars, inspVars>>

\* Time passes up to the next instant at which something can happen: the
\* trigger cycle of the disk slot, where the rotate event is served, or the
\* next instant of the CPU.
DvExecute ==
    LET op     == NextOpInstant(dv.clock)
        due    == dv.slot["DSK_SLOT"].triggerCycle
        target == IF due < op THEN due ELSE op
        v1     == [dv EXCEPT !.clock = target]
    IN  /\ target <= DMA_CYCLES(MaxDrvCycles)
        /\ IF due = target
           THEN /\ dv' = serviceDiskEventSlot(v1)
                /\ dvOut' = DvOut("serviceDiskEvent", v1)
           ELSE /\ dv' = v1
                /\ dvOut' = DvOut("execute", dv)
        /\ UNCHANGED <<copVars, trgVars, agVars, dcVars, tbVars, ddVars, inspVars>>

DvNext ==
    \/ DvPRBdidChange
    \/ DvSetConnected
    \/ DvExecute

\* Disk changes (DiskController.cpp:151-186, 375-403; Drive.cpp:532-564)

\* SEC(n): n seconds in units of the clock
MASTER_HZ == 28000000
SEC(n) == n * MASTER_HZ
MinSwapDelay == SEC(3) \div 2

\* Bounds of the disk-change model: the horizon in seconds, the disks the
\* user inserts, the drives used and the delays asked for
MaxDchSecs == 5
Disks == {"disk2", "disk3"}
DchDrives == {0, 1}
DchDelays == {0, SEC(2)}

MaxOf(a, b) == IF a > b THEN a ELSE b

hasDisk(v, nr) == v.disk[nr] # "NULL"

\* Drive::ejectDisk (Drive.cpp:532-548)
DriveEjectDisk(v, nr) ==
    IF v.disk[nr] # "NULL"
    THEN [v EXCEPT !.dskchange[nr] = FALSE, !.disk[nr] = "NULL"]
    ELSE v

\* Drive::insertDisk (Drive.cpp:551-564); the assert is checked by the caller
DriveInsertDisk(v, nr, disk) ==
    IF disk # "NULL" THEN [v EXCEPT !.disk[nr] = disk] ELSE v

\* scheduleRel<DCH_SLOT>(delay, id, data)
scheduleRelData(v, s, cycle, id, data) ==
    [scheduleRel(v, s, cycle, id) EXCEPT !.dchData = data]

\* DiskController::ejectDisk (DiskController.cpp:151-161)
ejectDisk(v, nr, delay) == scheduleRelData(v, "DCH_SLOT", delay, "DCH_EJECT", nr)

\* insertDisk leaving the old disk in the drive
insertDiskNoEject(v, disk, nr, delay) ==
    LET d == IF hasDisk(v, nr) THEN MaxOf(MinSwapDelay, delay) ELSE delay
    IN  scheduleRelData([v EXCEPT !.diskToInsert = disk],
                        "DCH_SLOT", d, "DCH_INSERT", nr)

\* DiskController::insertDisk (DiskController.cpp:163-186)
insertDisk(v, disk, nr, delay) ==
    LET v1 == IF hasDisk(v, nr) THEN DriveEjectDisk(v, nr) ELSE v
        d  == IF hasDisk(v, nr) THEN MaxOf(MinSwapDelay, delay) ELSE delay
    IN  scheduleRelData([v1 EXCEPT !.diskToInsert = disk],
                        "DCH_SLOT", d, "DCH_INSERT", nr)

\* DiskController::serviceDiskChangeEvent (DiskController.cpp:375-403)
serviceDiskChangeEvent(v, id, driveNr) ==
    LET v1 == IF id = "DCH_INSERT"
              THEN [DriveInsertDisk(v, driveNr, v.diskToInsert)
                       EXCEPT !.diskToInsert = "NULL"]
              ELSE DriveEjectDisk(v, driveNr)
    IN  cancel(v1, "DCH_SLOT")

DchInsertDisk ==
    /\ \E disk \in Disks, nr \in DchDrives, delay \in DchDelays :
        /\ \A n \in DriveNrs : dv.disk[n] # disk
        /\ dv' = insertDisk(dv, disk, nr, delay)
        /\ dvOut' = DvOutArg("insertDisk", dv, <<disk, nr, delay>>)
    /\ UNCHANGED <<copVars, trgVars, agVars, dcVars, tbVars, ddVars, inspVars>>

DchEjectDisk ==
    /\ \E nr \in DchDrives, delay \in DchDelays :
        /\ dv' = ejectDisk(dv, nr, delay)
        /\ dvOut' = DvOutArg("ejectDisk", dv, <<nr, delay>>)
    /\ UNCHANGED <<copVars, trgVars, agVars, dcVars, tbVars, ddVars, inspVars>>

\* Time passes up to the trigger cycle of the disk-change slot, where the
\* event is served, or up to the next full second.
DchExecute ==
    LET op     == ((dv.clock \div SEC(1)) + 1) * SEC(1)
        due    == dv.slot["DCH_SLOT"].triggerCycle
        target == IF due < op THEN due ELSE op
        v1     == [dv EXCEPT !.clock = target]
    IN  /\ target <= SEC(MaxDchSecs)
        /\ IF due = target
           THEN /\ dv' = serviceDiskChangeEvent(v1, v1.slot["DCH_SLOT"].id, v1.dchData)
                /\ dvOut' = DvOut("serviceDiskChangeEvent", v1)
           ELSE /\ dv' = v1
                /\ dvOut' = DvOut("execute", dv)
        /\ UNCHANGED <<copVars, trgVars, agVars, dcVars, tbVars, ddVars, inspVars>>

DchNext ==
    \/ DchInsertDisk
    \/ DchEjectDisk
    \/ DchExecute

-----------------------------------------------------------------------------
(* Operations that edit the event tables *)

DdfWindows ==
    { [strtOdd |-> \h38, stopOdd |-> \hD0, strtEven |-> \h38, stopEven |-> \hD0],
      [strtOdd |-> \h38, stopOdd |-> \hD0, strtEven |-> \h30, stopEven |-> \hD8] }
BplChannels == {0, 6}
FirstPositions == {0, \h40}
Scrolls == { <<3, 5>> }
DasMasks == {0, DSKEN, 63}

TbOut(t, op) == [t EXCEPT !.op = op]

TablesReset == TbOut(resetTables(TablesZero), "_reset")

TbStep(t, op) ==
    /\ tb' = TbOut(t, op)
    /\ UNCHANGED <<copVars, trgVars, agVars, dcVars, dvVars, ddVars, inspVars>>

TbReset == TbStep(resetTables(tb), "_reset")

TbClearBplEvents == TbStep(clearBplEvents(tb), "clearBplEvents")

TbUpdateBplEvents ==
    \E channels \in BplChannels, hires \in BOOLEAN, first \in FirstPositions,
       ddf \in DdfWindows, scroll \in Scrolls :
        TbStep(updateBplEvents(tb, channels, hires, first, HPOS_MAX, ddf,
                               scroll[1], scroll[2]), "updateBplEvents")

TbUpdateDrawingFlags ==
    \E hires \in BOOLEAN, scroll \in Scrolls :
        TbStep(updateDrawingFlags(tb, hires, scroll[1], scroll[2]),
               "updateDrawingFlags")

TbUpdateDasEvents ==
    \E dmacon \in DasMasks :
        TbStep(updateDasEvents(tb, dmacon), "updateDasEvents")

TbNext ==
    \/ TbReset
    \/ TbClearBplEvents
    \/ TbUpdateBplEvents
    \/ TbUpdateDrawingFlags
    \/ TbUpdateDasEvents

-----------------------------------------------------------------------------
(* Agnus: the data-fetch window (Agnus.cpp:1125-1394, 1795-1800)           *)
(* A window is kept as the arguments DDF::compute was called with, or as   *)
(* the cleared window.                                                     *)

\* Bounds of the data-fetch window model
DdNumLines  == 3                         \* lines per frame
MaxDdLines  == 4                         \* horizontal syncs explored
MaxDdWrites == 3                         \* register writes explored
DdfValues   == {\h10, \h38, \hD0, \hE4}  \* small, medium, medium, large
DdHs        == {\h08, \h40}              \* beam positions of register writes

DDF_OFF == "DDF_OFF"
DDF_ON  == "DDF_ON"

DDF_EMPTY     == 0
DDF_STRT_STOP == 1
DDF_STRT_D8   == 2
DDF_18_STOP   == 3
DDF_18_D8     == 4

DdfClear == [empty |-> TRUE, strt |-> 0, stop |-> 0]
DdfCompute(strt, stop) == [empty |-> FALSE, strt |-> strt, stop |-> stop]

\* The kind of a trigger position: 0 small, 1 medium, 2 large (not reached)
DdfKind(reached) == IF reached < 0 THEN 2 ELSE IF reached < \h18 THEN 0 ELSE 1

DdfInterval(a, interval) ==
    CASE interval = DDF_EMPTY     -> DdfClear
      [] interval = DDF_STRT_STOP -> DdfCompute(a.ddfstrtReached, a.ddfstopReached)
      [] interval = DDF_STRT_D8   -> DdfCompute(a.ddfstrtReached, \hD8)
      [] interval = DDF_18_STOP   -> DdfCompute(\h18, a.ddfstopReached)
      [] interval = DDF_18_D8     -> DdfCompute(\h18, \hD8)

OcsTable == <<DDF_EMPTY, DDF_18_STOP, DDF_18_D8,
              DDF_EMPTY, DDF_STRT_STOP, DDF_STRT_D8,
              DDF_EMPTY, DDF_EMPTY, DDF_EMPTY>>

\* The intended table alone, without the early-access test in front of it
computeDDFWindowOCSTableOnly(a) ==
    LET index == 3 * DdfKind(a.ddfstrtReached) + DdfKind(a.ddfstopReached)
    IN  [a EXCEPT !.ddf = DdfInterval(a, OcsTable[index + 1])]

computeDDFWindowOCS(a) ==
    IF a.ddfstrtReached < \h18
    THEN IF a.ocsEarlyAccessLine = a.v
         THEN [a EXCEPT !.ddf = DdfCompute(a.ddfstrtReached, a.ddfstopReached)]
         ELSE [a EXCEPT !.ddf = DdfClear, !.ocsEarlyAccessLine = a.v + 1]
    ELSE computeDDFWindowOCSTableOnly(a)

EcsTable ==
    << <<DDF_EMPTY, DDF_OFF>>,     <<DDF_EMPTY, DDF_OFF>>,
       <<DDF_18_STOP, DDF_OFF>>,   <<DDF_18_STOP, DDF_OFF>>,
       <<DDF_18_D8, DDF_ON>>,      <<DDF_18_D8, DDF_ON>>,
       <<DDF_EMPTY, DDF_OFF>>,     <<DDF_EMPTY, DDF_OFF>>,
       <<DDF_STRT_STOP, DDF_OFF>>, <<DDF_18_STOP, DDF_OFF>>,
       <<DDF_STRT_D8, DDF_ON>>,    <<DDF_18_D8, DDF_ON>>,
       <<DDF_EMPTY, DDF_OFF>>,     <<DDF_EMPTY, DDF_OFF>>,
       <<DDF_EMPTY, DDF_OFF>>,     <<DDF_EMPTY, DDF_OFF>>,
       <<DDF_EMPTY, DDF_OFF>>,     <<DDF_18_D8, DDF_ON>> >>

EcsIndex(a) ==
    6 * DdfKind(a.ddfstrtReached) + 2 * DdfKind(a.ddfstopReached)
      + (IF a.ddfState = DDF_ON THEN 1 ELSE 0)

\* The window table with a fetch state that is never switched on
computeDDFWindowECSStateless(a) ==
    [a EXCEPT !.ddf = DdfInterval(a, EcsTable[EcsIndex(a) + 1][1]),
              !.ddfState = DDF_OFF]

computeDDFWindowECS(a) ==
    [a EXCEPT !.ddf = DdfInterval(a, EcsTable[EcsIndex(a) + 1][1]),
              !.ddfState = EcsTable[EcsIndex(a) + 1][2]]

computeDDFWindow(a) ==
    LET b == IF a.isOCS THEN computeDDFWindowOCS(a) ELSE computeDDFWindowECS(a)
    IN  [b EXCEPT !.computed = TRUE, !.stateAtCompute = a.ddfState]

predictDDF(a) ==
    LET r == [a EXCEPT
                !.ddfstrtReached = IF a.ddfstrt < HPOS_CNT THEN a.ddfstrt ELSE -1,
                !.ddfstopReached = IF a.ddfstop < HPOS_CNT THEN a.ddfstop ELSE -1]
        b == computeDDFWindow(r)
    IN  IF b.ddf # a.ddf \/ b.ddfState # a.ddfState
        THEN [b EXCEPT !.hsyncActions =
                           @ \cup {"HSYNC_UPDATE_BPL_TABLE", "HSYNC_PREDICT_DDF"}]
        ELSE b

setDDFSTRT(a, value) ==
    LET w == [a EXCEPT !.ddfstrt = value,
                       !.hsyncActions = @ \cup {"HSYNC_PREDICT_DDF"}]
    IN  IF w.h < w.ddfstrtReached
        THEN IF w.ddfstrt <= w.h + 2
             THEN [w EXCEPT !.ddfstrtReached = -1]
             ELSE computeDDFWindow(
                      [w EXCEPT !.ddfstrtReached =
                                    IF w.ddfstrt > HPOS_MAX THEN -1 ELSE w.ddfstrt])
        ELSE w

setDDFSTOP(a, value) ==
    LET w == [a EXCEPT !.ddfstop = value,
                       !.hsyncActions = @ \cup {"HSYNC_PREDICT_DDF"}]
    IN  IF w.h + 2 < w.ddfstopReached \/ w.ddfstopReached = -1
        THEN IF w.ddfstop <= w.h + 2
             THEN [w EXCEPT !.ddfstopReached = -1]
             ELSE LET s == [w EXCEPT !.ddfstopReached =
                                IF w.ddfstop > HPOS_MAX THEN -1 ELSE w.ddfstop]
                  IN  IF s.ddfstrtReached >= 0 THEN computeDDFWindow(s) ELSE s
        ELSE w

\* The part of the hsync handler that concerns the window
DdfHsyncHandler(a) ==
    LET n == [a EXCEPT !.h = 0,
                       !.v = IF a.v + 1 >= DdNumLines THEN 0 ELSE a.v + 1,
                       !.lines = @ + 1,
                       !.wrote = FALSE,
                       !.computed = FALSE]
        p == IF "HSYNC_PREDICT_DDF" \in n.hsyncActions
             THEN predictDDF([n EXCEPT !.hsyncActions = @ \ {"HSYNC_PREDICT_DDF"}])
             ELSE n
    IN  [p EXCEPT !.hsyncActions = @ \ {"HSYNC_UPDATE_BPL_TABLE"}]

DdfReset(ocs) ==
    [isOCS |-> ocs, v |-> 0, h |-> 0,
     ddfstrt |-> 0, ddfstop |-> 0,
     ddfstrtReached |-> 0, ddfstopReached |-> 0,
     ddfState |-> DDF_OFF, ddf |-> DdfClear,
     ocsEarlyAccessLine |-> 0, hsyncActions |-> {},
     lines |-> 0, writes |-> 0, wrote |-> FALSE,
     computed |-> FALSE, stateAtCompute |-> DDF_OFF]

DdOut(op, before) == [op |-> op, before |-> before]
DdOutInit == DdOut("reset", DdfReset(TRUE))

DdStep(op, next) ==
    /\ dd' = next
    /\ ddOut' = DdOut(op, dd)
    /\ UNCHANGED <<copVars, trgVars, agVars, dcVars, tbVars, dvVars, inspVars>>

DdHsync ==
    /\ dd.lines < MaxDdLines
    /\ DdStep("hsync", DdfHsyncHandler(dd))

DdWrite(a, h) ==
    [a EXCEPT !.h = h, !.writes = @ + 1, !.wrote = TRUE, !.computed = FALSE]

DdSetDDFSTRT ==
    \E value \in DdfValues, h \in DdHs :
        /\ dd.writes < MaxDdWrites
        /\ h >= dd.h
        /\ DdStep("setDDFSTRT", setDDFSTRT(DdWrite(dd, h), value))

DdSetDDFSTOP ==
    \E value \in DdfValues, h \in DdHs :
        /\ dd.writes < MaxDdWrites
        /\ h >= dd.h
        /\ DdStep("setDDFSTOP", setDDFSTOP(DdWrite(dd, h), value))

DdNext ==
    \/ DdHsync
    \/ DdSetDDFSTRT
    \/ DdSetDDFSTOP

-----------------------------------------------------------------------------
(* Inspection: the queries of another thread                                *)
(* (DiskController.cpp:59-76, 112-122; Copper.cpp:27-37)                    *)
(* The emulator thread writes registers and takes the disk controller's    *)
(* snapshot; the reader thread runs one getInfo at a time.  seen collects   *)
(* what the Copper looked like at every instant of a query, snap is what   *)
(* the disk controller looked like when its snapshot was taken.            *)

MaxInspSteps   == 3      \* register writes of the emulator thread
MaxInspQueries == 2      \* queries of the reader thread

\* The fields Copper::getInfo reads
CopperInfoOf(c) ==
    [cdang |-> c.cdang, coppc |-> c.coppc, coplc0 |-> c.coplc[0], coplc1 |-> c.coplc[1]]

\* The fields DiskController::_inspect copies (those the model keeps)
DiskControllerInfoOf(d) ==
    [state |-> d.state, fifoCount |-> d.fifoCount, dsklen |-> d.dsklen,
     dsksync |-> d.dsksync]

ReaderIdle == [target |-> "none", pc |-> 0, result |-> CopperInfoOf(CopperPowerOn)]

InspReset ==
    [lock |-> "free", emu |-> "run",
     info |-> DiskControllerInfoOf(DiskControllerReset(<<\h12, \h34, \h44, \h89>>, 1)),
     snap |-> DiskControllerInfoOf(DiskControllerReset(<<\h12, \h34, \h44, \h89>>, 1)),
     rd |-> ReaderIdle, seen |-> {}, steps |-> 0, queries |-> 0,
     last |-> [target |-> "none", result |-> CopperInfoOf(CopperPowerOn), seen |-> {}]]

\* A step of the emulator thread that leaves the Copper as c and the disk
\* controller as d
InspEmu(c, d, i) ==
    /\ cop' = c
    /\ dc' = d
    /\ insp' = [i EXCEPT !.seen = IF i.rd.target = "copper"
                                  THEN @ \cup {CopperInfoOf(c)}
                                  ELSE @]
    /\ UNCHANGED <<dmaClock, copOut, nPokes, trgVars, agVars, dcOut, tbVars,
                   dvVars, ddVars>>

InspEmuStep(c, d) ==
    /\ insp.emu = "run"
    /\ insp.steps < MaxInspSteps
    /\ InspEmu(c, d, [insp EXCEPT !.steps = @ + 1])

InspPokeCOPCON == \E v \in CONWords : v # 0 /\ InspEmuStep(pokeCOPCON(cop, v), dc)
InspPokeCOPxLCH ==
    \E x \in 0..1, v \in LCHWords : InspEmuStep(pokeCOPxLCH(cop, x, v), dc)
InspPokeDSKLEN ==
    \E value \in DsklenWords : InspEmuStep(cop, pokeDSKLEN(dc, value, FALSE))

\* DiskController::_inspect, run by the emulator thread: the lock is taken
\* and the first fields are copied; the others are copied and the lock is
\* released
InspInspectBegin ==
    /\ insp.emu = "run"
    /\ insp.lock = "free"
    /\ InspEmu(cop, dc, [insp EXCEPT !.lock = "emu", !.emu = "inspecting",
                                     !.snap = DiskControllerInfoOf(dc),
                                     !.info.state = dc.state,
                                     !.info.fifoCount = dc.fifoCount])

InspInspectEnd ==
    /\ insp.emu = "inspecting"
    /\ InspEmu(cop, dc, [insp EXCEPT !.lock = "free", !.emu = "run",
                                     !.info.dsklen = dc.dsklen,
                                     !.info.dsksync = dc.dsksync])

InspReader(i) ==
    /\ insp' = i
    /\ UNCHANGED <<copVars, trgVars, agVars, dcVars, tbVars, dvVars, ddVars>>

InspReturn(i, target, result, seen) ==
    [i EXCEPT !.rd = ReaderIdle, !.seen = {},
              !.last = [target |-> target, result |-> result, seen |-> seen]]

\* DiskController::getInfo: lock, copy info, unlock
DiskControllerGetInfo ==
    \/ /\ insp.rd.target = "none"
       /\ insp.queries < MaxInspQueries
       /\ insp.lock = "free"
       /\ InspReader([insp EXCEPT !.lock = "reader", !.queries = @ + 1,
                                  !.rd = [ReaderIdle EXCEPT !.target = "disk"]])
    \/ /\ insp.rd.target = "disk"
       /\ InspReader(InspReturn([insp EXCEPT !.lock = "free"],
                                "disk", insp.info, {insp.snap}))

\* Copper::getInfo: the fields are read one after the other from the Copper
CopperGetInfo ==
    \/ /\ insp.rd.target = "none"
       /\ insp.queries < MaxInspQueries
       /\ InspReader([insp EXCEPT
              !.queries = @ + 1,
              !.seen = {CopperInfoOf(cop)},
              !.rd = [target |-> "copper", pc |-> 1,
                      result |-> [ReaderIdle.result EXCEPT !.cdang = cop.cdang]]])
    \/ /\ insp.rd.target = "copper"
       /\ insp.rd.pc = 1
       /\ InspReader([insp EXCEPT !.rd.pc = 2, !.rd.result.coppc = cop.coppc])
    \/ /\ insp.rd.target = "copper"
       /\ insp.rd.pc = 2
       /\ InspReader([insp EXCEPT !.rd.pc = 3, !.rd.result.coplc0 = cop.coplc[0]])
    \/ /\ insp.rd.target = "copper"
       /\ insp.rd.pc = 3
       /\ InspReader(InspReturn(insp, "copper",
                                [insp.rd.result EXCEPT !.coplc1 = cop.coplc[1]],
                                insp.seen))

InspNext ==
    \/ InspPokeCOPCON
    \/ InspPokeCOPxLCH
    \/ InspPokeDSKLEN
    \/ InspInspectBegin
    \/ InspInspectEnd
    \/ DiskControllerGetInfo
    \/ CopperGetInfo

-----------------------------------------------------------------------------
(* Drive: the search for a sync mark (Drive.cpp:392-403)                   *)

SyncTrackSize == 4                 \* bytes per track
SyncBytes     == {\h44, \h89, \h12}
MaxSyncOps    == 2                 \* searches in a row

SyncTracks == [1..SyncTrackSize -> SyncBytes]

SyncFindSyncMark ==
    /\ dcOut.n < MaxSyncOps
    /\ dc' = findSyncMark(dc)
    /\ dcOut' = DcOut("findSyncMark", dc, 0, 0, <<>>, <<>>, TRUE, dcOut.n + 1)
    /\ UNCHANGED <<copVars, trgVars, agVars, tbVars, dvVars, ddVars, inspVars>>

SyncNext == SyncFindSyncMark

-----------------------------------------------------------------------------
(* Drive: the disk-change signal and the head steps                        *)
(* (Drive.cpp:214-245, 412-455, 532-564, 573-626)                          *)

RISING_EDGE(old, new) == ~old /\ new

\* The PRB values written: /SEL0, DIR and STEP vary, the other bits are high
ChgPrbValues == { \hF4 + s0 * \h08 + dir * \h02 + stp : s0 \in 0..1, dir \in 0..1, stp \in 0..1 }
ChgDrives    == {0}
MaxChgCylinder == 2      \* no further PRB writes once the head is beyond

\* A step pulse reaches drive nr: STEP goes high and the drive was selected
StepPulse(nr, oldValue, newValue) ==
    /\ RISING_EDGE(BitAnd(oldValue, \h01) # 0, BitAnd(newValue, \h01) # 0)
    /\ BitAnd(oldValue, SelMask(nr)) = 0

\* step setting the signal on an empty drive too
stepOnAnyDrive(v, nr, dir, ready) ==
    LET v1 == [v EXCEPT !.dskchange[nr] = TRUE]
    IN  IF ~ready THEN v1
        ELSE IF dir
             THEN IF v1.cylinder[nr] > 0
                  THEN [v1 EXCEPT !.cylinder[nr] = (@ + 254) % 256] ELSE v1
             ELSE IF v1.cylinder[nr] < 83
                  THEN [v1 EXCEPT !.cylinder[nr] = @ + 1] ELSE v1

\* Drive::step (Drive.cpp:412-455); ready is readyToStep()
step(v, nr, dir, ready) ==
    LET v1 == IF hasDisk(v, nr) THEN [v EXCEPT !.dskchange[nr] = TRUE] ELSE v
    IN  IF ~ready THEN v1
        ELSE IF dir
             THEN IF v1.cylinder[nr] > 0
                  THEN [v1 EXCEPT !.cylinder[nr] = (@ + 254) % 256] ELSE v1
             ELSE IF v1.cylinder[nr] < 83
                  THEN [v1 EXCEPT !.cylinder[nr] = @ + 1] ELSE v1

\* Drive::PRBdidChange (Drive.cpp:617-619), the head of drive nr
DriveStepOnPRB(v, nr, oldValue, newValue, ready) ==
    IF v.connected[nr] /\ StepPulse(nr, oldValue, newValue)
    THEN step(v, nr, BitAnd(newValue, \h02) # 0, ready)
    ELSE v

\* Drive::driveStatusFlags (Drive.cpp:214-245), bit PA2: /DSKCHANGE
driveStatusFlags(v, nr) ==
    IF isSelected(v.prb, nr) /\ ~v.dskchange[nr] THEN \hFB ELSE \hFF

ChgPRBdidChange ==
    /\ dv.cylinder[0] <= MaxChgCylinder
    /\ \E newValue \in ChgPrbValues, ready \in BOOLEAN :
        /\ newValue # dv.prb
        /\ dv' = DriveStepOnPRB(DiskControllerPRBdidChange(dv, dv.prb, newValue),
                                0, dv.prb, newValue, ready)
        /\ dvOut' = DvOutArg("PRBdidChange", dv, <<newValue>>)
    /\ UNCHANGED <<copVars, trgVars, agVars, dcVars, tbVars, ddVars, inspVars>>

ChgEjectDisk ==
    /\ \E nr \in ChgDrives :
        /\ dv' = DriveEjectDisk(dv, nr)
        /\ dvOut' = DvOutArg("ejectDisk", dv, <<nr>>)
    /\ UNCHANGED <<copVars, trgVars, agVars, dcVars, tbVars, ddVars, inspVars>>

ChgInsertDisk ==
    /\ \E nr \in ChgDrives, disk \in Disks :
        /\ ~hasDisk(dv, nr)
        /\ dv' = DriveInsertDisk(dv, nr, disk)
        /\ dvOut' = DvOutArg("insertDisk", dv, <<nr, disk>>)
    /\ UNCHANGED <<copVars, trgVars, agVars, dcVars, tbVars, ddVars, inspVars>>

ChgNext ==
    \/ ChgPRBdidChange
    \/ ChgEjectDisk
    \/ ChgInsertDisk

-----------------------------------------------------------------------------
(* Specifications *)

InitCopper ==
    /\ cop = CopperPowerOn
    /\ dmaClock = 0
    /\ copOut = OutInit
    /\ nPokes = 0
    /\ trg = TrgIdle
    /\ ag = AgnusReset
    /\ agOut = AgOutInit
    /\ dc = DiskControllerReset(<<\h12, \h34, \h44, \h89>>, 1)
    /\ dcOut = DcOutInit(dc)
    /\ tb = TablesReset
    /\ dv = DriveBayReset
    /\ dvOut = DvOutInit
    /\ dd = DdfReset(TRUE)
    /\ ddOut = DdOutInit
    /\ insp = InspReset

InitTrigger ==
    /\ \E b \in TrgBeams, i1 \in TrgIns1, i2 \in TrgIns2 :
          trg = [beam |-> b, copins1 |-> i1, copins2 |-> i2, done |-> FALSE, wake |-> 0]
    /\ cop = CopperPowerOn
    /\ dmaClock = 0
    /\ copOut = OutInit
    /\ nPokes = 0
    /\ ag = AgnusReset
    /\ agOut = AgOutInit
    /\ dc = DiskControllerReset(<<\h12, \h34, \h44, \h89>>, 1)
    /\ dcOut = DcOutInit(dc)
    /\ tb = TablesReset
    /\ dv = DriveBayReset
    /\ dvOut = DvOutInit
    /\ dd = DdfReset(TRUE)
    /\ ddOut = DdOutInit
    /\ insp = InspReset

InitAgnus ==
    /\ ag = AgnusReset
    /\ agOut = AgOutInit
    /\ cop = CopperPowerOn
    /\ dmaClock = 0
    /\ copOut = OutInit
    /\ nPokes = 0
    /\ trg = TrgIdle
    /\ dc = DiskControllerReset(<<\h12, \h34, \h44, \h89>>, 1)
    /\ dcOut = DcOutInit(dc)
    /\ tb = TablesReset
    /\ dv = DriveBayReset
    /\ dvOut = DvOutInit
    /\ dd = DdfReset(TRUE)
    /\ ddOut = DdOutInit
    /\ insp = InspReset

InitFifo ==
    /\ dc = DiskControllerReset(<<\h12, \h34, \h44, \h89>>, 1)
    /\ dcOut = DcOutInit(dc)
    /\ cop = CopperPowerOn
    /\ dmaClock = 0
    /\ copOut = OutInit
    /\ nPokes = 0
    /\ trg = TrgIdle
    /\ ag = AgnusReset
    /\ agOut = AgOutInit
    /\ tb = TablesReset
    /\ dv = DriveBayReset
    /\ dvOut = DvOutInit
    /\ dd = DdfReset(TRUE)
    /\ ddOut = DdOutInit
    /\ insp = InspReset

InitDisk ==
    /\ \E track \in Tracks, speed \in 1..MaxAcceleration :
          dc = DiskControllerReset(track, speed)
    /\ dcOut = DcOutInit(dc)
    /\ cop = CopperPowerOn
    /\ dmaClock = 0
    /\ copOut = OutInit
    /\ nPokes = 0
    /\ trg = TrgIdle
    /\ ag = AgnusReset
    /\ agOut = AgOutInit
    /\ tb = TablesReset
    /\ dv = DriveBayReset
    /\ dvOut = DvOutInit
    /\ dd = DdfReset(TRUE)
    /\ ddOut = DdOutInit
    /\ insp = InspReset

\* The operations of the disk controller, on shorter runs
MaxTurboOps == 5
TurboNext == dcOut.n < MaxTurboOps /\ DcNext

\* The selected drive is a turbo drive
InitTurbo ==
    /\ \E track \in Tracks, speed \in 1..MaxAcceleration :
          dc = [DiskControllerReset(track, speed) EXCEPT !.turbo = TRUE]
    /\ dcOut = DcOutInit(dc)
    /\ cop = CopperPowerOn
    /\ dmaClock = 0
    /\ copOut = OutInit
    /\ nPokes = 0
    /\ trg = TrgIdle
    /\ ag = AgnusReset
    /\ agOut = AgOutInit
    /\ tb = TablesReset
    /\ dv = DriveBayReset
    /\ dvOut = DvOutInit
    /\ dd = DdfReset(TRUE)
    /\ ddOut = DdOutInit
    /\ insp = InspReset

InitTables ==
    /\ tb = TablesReset
    /\ cop = CopperPowerOn
    /\ dmaClock = 0
    /\ copOut = OutInit
    /\ nPokes = 0
    /\ trg = TrgIdle
    /\ ag = AgnusReset
    /\ agOut = AgOutInit
    /\ dc = DiskControllerReset(<<\h12, \h34, \h44, \h89>>, 1)
    /\ dcOut = DcOutInit(dc)
    /\ dv = DriveBayReset
    /\ dvOut = DvOutInit
    /\ dd = DdfReset(TRUE)
    /\ ddOut = DdOutInit
    /\ insp = InspReset

InitDrives ==
    /\ tb = TablesReset
    /\ cop = CopperPowerOn
    /\ dmaClock = 0
    /\ copOut = OutInit
    /\ nPokes = 0
    /\ trg = TrgIdle
    /\ ag = AgnusReset
    /\ agOut = AgOutInit
    /\ dc = DiskControllerReset(<<\h12, \h34, \h44, \h89>>, 1)
    /\ dcOut = DcOutInit(dc)
    /\ dv = DriveBayReset
    /\ dvOut = DvOutInit
    /\ dd = DdfReset(TRUE)
    /\ ddOut = DdOutInit
    /\ insp = InspReset

InitDdf ==
    /\ tb = TablesReset
    /\ cop = CopperPowerOn
    /\ dmaClock = 0
    /\ copOut = OutInit
    /\ nPokes = 0
    /\ trg = TrgIdle
    /\ ag = AgnusReset
    /\ agOut = AgOutInit
    /\ dc = DiskControllerReset(<<\h12, \h34, \h44, \h89>>, 1)
    /\ dcOut = DcOutInit(dc)
    /\ dv = DriveBayReset
    /\ dvOut = DvOutInit
    /\ \E ocs \in BOOLEAN : dd = DdfReset(ocs)
    /\ ddOut = DdOutInit
    /\ insp = InspReset

InitSync ==
    /\ tb = TablesReset
    /\ cop = CopperPowerOn
    /\ dmaClock = 0
    /\ copOut = OutInit
    /\ nPokes = 0
    /\ trg = TrgIdle
    /\ ag = AgnusReset
    /\ agOut = AgOutInit
    /\ \E track \in SyncTracks, offset \in 0..(SyncTrackSize - 1) :
          dc = [DiskControllerReset(track, 1) EXCEPT !.offset = offset]
    /\ dcOut = DcOutInit(dc)
    /\ dv = DriveBayReset
    /\ dvOut = DvOutInit
    /\ dd = DdfReset(TRUE)
    /\ ddOut = DdOutInit
    /\ insp = InspReset

InitBus ==
    /\ \E i \in DOMAIN BusConfigs : ag = BusReset(BusConfigs[i])
    /\ agOut = BusOut("reset", 0, NoAccess)
    /\ cop = CopperPowerOn
    /\ dmaClock = 0
    /\ copOut = OutInit
    /\ nPokes = 0
    /\ trg = TrgIdle
    /\ dc = DiskControllerReset(<<\h12, \h34, \h44, \h89>>, 1)
    /\ dcOut = DcOutInit(dc)
    /\ tb = TablesReset
    /\ dv = DriveBayReset
    /\ dvOut = DvOutInit
    /\ dd = DdfReset(TRUE)
    /\ ddOut = DdOutInit
    /\ insp = InspReset

SpecBus     == InitBus /\ [][BusNext]_vars
SpecCopper  == InitCopper /\ [][CopNext]_vars
SpecTrigger == InitTrigger /\ [][TrgNext]_vars
SpecAgnus   == InitAgnus /\ [][AgNext]_vars
SpecFifo    == InitFifo /\ [][FifoNext]_vars
SpecDisk    == InitDisk /\ [][DcNext]_vars
SpecTables  == InitTables /\ [][TbNext]_vars
SpecTurbo   == InitTurbo /\ [][TurboNext]_vars
SpecDrives  == InitDrives /\ [][DvNext]_vars
SpecDiskChange == InitDrives /\ [][DchNext]_vars
SpecDdf     == InitDdf /\ [][DdNext]_vars
SpecChange  == InitDrives /\ [][ChgNext]_vars
SpecSync    == InitSync /\ [][SyncNext]_vars

\* Time does not stop: the emulator thread keeps executing cycles, so a due
\* disk-change event is served
SpecDiskChangeFair == InitDrives /\ [][DchNext]_vars /\ WF_vars(DchExecute)
SpecInspect == InitDrives /\ [][InspNext]_vars


-----------------------------------------------------------------------------
(* Claims about the wake-beam computation *)

\* C2: the wake position W returned by nextTriggerPosition for beam B
\* satisfies W >= B, the comparator of the WAIT fires at W, and it fires at
\* no position B' with B <= B' < W.
TriggerIsSmallest ==
    (trg.done /\ trg # TrgIdle) =>
        /\ trg.wake >= trg.beam
        /\ WaitFiresAt(trg.wake)
        /\ \A b \in trg.beam .. (trg.wake - 1) : ~WaitFiresAt(b)

-----------------------------------------------------------------------------
(* Claims about the Copper *)

\* The last step served a MOVE event and the bus was granted
MoveServed == copOut.op = "tick" /\ copOut.ev = COPPER_MOVE /\ copOut.bus

\* Register number of the latched MOVE
MoveReg == BitAnd(cop.copins1, \h1FE)

\* C3: a MOVE writes registers below 0x40 always, registers 0x40..0x7F
\* only when cdang is set, and a register >= 0x80 terminates the Copper.
MoveWritesByRegisterClass ==
    MoveServed =>
        /\ (MoveReg < \h40 => copOut.poke = <<MoveReg, cop.copins2>>)
        /\ (MoveReg >= \h40 /\ MoveReg < \h80 =>
               IF cop.cdang THEN copOut.poke = <<MoveReg, cop.copins2>>
                            ELSE copOut.poke = NoPoke)
        /\ (MoveReg >= \h80 => copOut.poke = NoPoke /\ copOut.halt)

SkipSuppressesNextMoveOnce ==
    [][/\ (copOut'.op = "tick" /\ copOut'.ev = COPPER_MOVE /\ copOut'.bus) =>
            /\ ~cop'.skip
            /\ (cop.skip => copOut'.poke = NoPoke)
       /\ (/\ copOut'.op = "tick" /\ copOut'.ev = COPPER_WAIT_OR_SKIP /\ copOut'.bus
           /\ isSkipCmd(cop'.copins1, cop'.copins2)
           /\ runComparator(BeamAt(dmaClock), getVPHP(cop'.copins1),
                            getVMHM(cop'.copins2))) => cop'.skip]_vars

\* C6: after a WAIT_OR_SKIP event is served the Copper has an event
\* scheduled at or after the current cycle, and after a SKIP it is in FETCH.
WaitOrSkipReschedules ==
    [][(/\ copOut'.op = "tick" /\ copOut'.ev = COPPER_WAIT_OR_SKIP
        /\ copOut'.bus /\ ~copOut'.vsync) =>
            /\ cop'.slot.triggerCycle # NEVER
            /\ cop'.slot.triggerCycle >= dmaClock
            /\ (isSkipCmd(cop'.copins1, cop'.copins2) =>
                   cop'.state = COPPER_FETCH /\ cop'.slot.type = COPPER_FETCH)]_vars

\* C7: serving REQUEST_DMA reads no instruction word and leaves coppc
\* unchanged; with the bus granted the next event is FETCH.
RequestDmaOnlyArbitrates ==
    [][(copOut'.op = "tick" /\ copOut'.ev = COPPER_REQUEST_DMA) =>
            /\ cop'.coppc = cop.coppc
            /\ cop'.copins1 = cop.copins1
            /\ ((copOut'.bus /\ ~copOut'.vsync) => cop'.state = COPPER_FETCH)]_vars

\* C8: coppc is word-aligned and within the address mask 0x7FFFE.
CoppcAlignedAndMasked ==
    /\ cop.coppc % 2 = 0
    /\ BitAnd(cop.coppc, \h7FFFE) = cop.coppc

\* C9: a write to COPJMP1 (x = 0) or COPJMP2 (x = 1) leaves the Copper in
\* state JMP1 or JMP2 with that event scheduled.
StrobeForcesJump ==
    copOut.op = "pokeCOPJMP" =>
        LET jmp == IF copOut.x = 0 THEN COPPER_JMP1 ELSE COPPER_JMP2
        IN  /\ cop.state = jmp
            /\ cop.slot.type = jmp
            /\ cop.slot.triggerCycle # NEVER

\* A JMP1 event is pending in the Copper slot
Jmp1Pending == cop.slot.type = COPPER_JMP1 /\ cop.slot.triggerCycle # NEVER

\* C10: a vertical sync leaves a JMP1 event pending 4 clock units ahead,
\* whatever the Copper was doing; a pending JMP1 is never more than 4 units
\* ahead, nothing but its service or another vsync changes the slot, and the
\* first DMA cycle at or after its trigger serves it, which loads coppc from
\* coplc[0] and puts the Copper into REQUEST_DMA.
VsyncRestartsCopper ==
    /\ [](copOut.vsync =>
             /\ cop.state = COPPER_JMP1
             /\ cop.slot = [triggerCycle |-> dmaClock + 4, type |-> COPPER_JMP1])
    /\ [](Jmp1Pending => cop.slot.triggerCycle <= dmaClock + 4)
    /\ [][Jmp1Pending =>
            IF copOut'.op = "tick" /\ cop.slot.triggerCycle <= dmaClock
            THEN /\ copOut'.ev = COPPER_JMP1
                 /\ cop'.coppc = cop.coplc[0]
                 /\ (~copOut'.vsync =>
                        /\ cop'.state = COPPER_REQUEST_DMA
                        /\ cop'.slot.type = COPPER_REQUEST_DMA
                        /\ cop'.slot.triggerCycle = dmaClock + 2)
            ELSE copOut'.vsync \/ cop'.slot = cop.slot]_vars

\* C10 witness: in the second frame a JMP1 event was served and loaded a
\* program pointer written by the CPU.
Jmp1ServedAfterVsync ==
    /\ copOut.op = "tick" /\ copOut.ev = COPPER_JMP1
    /\ dmaClock > CopHposCnt * CopNumLines * DMA_CYCLE * 2
    /\ cop.state = COPPER_REQUEST_DMA
    /\ cop.coppc = cop.coplc[0] /\ cop.coppc # 0

-----------------------------------------------------------------------------
(* Claims about Agnus *)

\* C1: one call executeUntil(clock + n DMA cycles) leaves clock, pos.h,
\* pos.v, busOwner[] and every event slot as n single execute() calls do.
ExecuteUntilMatchesStepping ==
    agOut.op = "executeUntil" => ag = agOut.shadow

\* C1 witness: the fast-forward branch was taken for more than one cycle in a
\* line whose disk slots had been served.
FastForwardTaken ==
    /\ agOut.op = "executeUntil" /\ agOut.fast /\ agOut.n > 1
    /\ ag.busOwner[\h0B] = "BUS_DISK"
    /\ ag.nHsync > 0

\* Every entry of the bus usage table is free
BusTableClear == \A i \in 0..HPOS_MAX : ag.busOwner[i] = "BUS_NONE"

-----------------------------------------------------------------------------
(* Disk controller FIFO *)

\* C18: starting from a cleared FIFO, after writing at most six bytes with
\* writeFifo and then reading with readFifo, the bytes read so far are the
\* first bytes written, in the order written, and the FIFO holds the rest
\* (so it is empty once as many bytes were read as written); each readFifo
\* returns byte number count-1 of the register and decrements the count.
FifoRoundTrip ==
    /\ dcOut.inOrder =>
          /\ Len(dcOut.popped) <= Len(dcOut.pushed)
          /\ dcOut.popped = SubSeq(dcOut.pushed, 1, Len(dcOut.popped))
          /\ dc.fifoCount = Len(dcOut.pushed) - Len(dcOut.popped)
    /\ dcOut.op = "readFifo" =>
          /\ dcOut.out = dcOut.before.fifo[dcOut.before.fifoCount - 1]
          /\ dc.fifoCount = dcOut.before.fifoCount - 1

FifoSixRoundTrip ==
    /\ dcOut.inOrder
    /\ Len(dcOut.pushed) = 6
    /\ Len(dcOut.popped) = 6
    /\ dcOut.pushed[1] # dcOut.pushed[2]
    /\ dcOut.pushed[5] # dcOut.pushed[6]

\* C19: fifoCount is always within 0..6, and a writeFifo on a full FIFO
\* leaves five bytes: the four newest of the six it held, then the new byte.
FifoFullDropsOldestWord ==
    /\ dc.fifoCount \in 0..6
    /\ (dcOut.op = "writeFifo" /\ dcOut.before.fifoCount = 6) =>
          /\ dc.fifoCount = 5
          /\ Drain(dc) = Append(SubSeq(Drain(dcOut.before), 3, 6), dcOut.byte)

FifoOverflowed ==
    /\ dcOut.op = "writeFifo"
    /\ dcOut.before.fifoCount = 6
    /\ Drain(dcOut.before)[1] # Drain(dcOut.before)[2]
    /\ Drain(dcOut.before)[2] # Drain(dcOut.before)[3]

\* The FIFO holds at least two bytes and its two most recent bytes are dsksync.
SyncMatch(q, dsksync) ==
    Len(q) >= 2 /\ HI_LO(q[Len(q) - 1], q[Len(q)]) = dsksync

RotateWhileReading ==
    /\ dcOut.op = "serviceDiskEvent"
    /\ dcOut.before.state \in {DRIVE_DMA_WAIT, DRIVE_DMA_READ}

\* C20 as stated: after a rotate event in DMA_WAIT or DMA_READ, syncFlag is
\* true iff the FIFO then holds at least two bytes whose two most recent
\* bytes equal dsksync, and the event raises the sync interrupt once if so
\* and not at all otherwise.
SyncFlagIffFifoEndsWithSync ==
    RotateWhileReading =>
        /\ dc.syncFlag <=> SyncMatch(Drain(dc), dc.dsksync)
        /\ dc.irq["INT_DSKSYN"] = dcOut.before.irq["INT_DSKSYN"]
              + (IF SyncMatch(Drain(dc), dc.dsksync) THEN 1 ELSE 0)

\* The FIFO contents of the controller before the event with the byte under
\* the drive head appended (the two oldest bytes dropped if it was full).
FifoWithIncoming ==
    LET q == Drain(dcOut.before)
        b == dcOut.before.track[dcOut.before.offset + 1]
    IN  IF Len(q) = 6 THEN Append(SubSeq(q, 3, 6), b) ELSE Append(q, b)

\* C20 amended: with a drive selected, after a rotate event in DMA_WAIT or
\* DMA_READ syncFlag is true iff the FIFO, right after the incoming byte was
\* appended, held at least two bytes whose two most recent bytes equal
\* dsksync; the event raises the sync interrupt once if so and not at all
\* otherwise; on a match in DMA_WAIT the FIFO is then cleared and the state
\* is DMA_READ, in every other case the FIFO keeps the appended byte.  With
\* no drive selected the event changes nothing, and no register write and
\* no unaccelerated DMA transfer raises the sync interrupt.
SyncFlagIffIncomingByteCompletesSync ==
    /\ (RotateWhileReading /\ dcOut.before.selected >= 0) =>
          LET match == SyncMatch(FifoWithIncoming, dc.dsksync)
          IN  /\ dc.syncFlag <=> match
              /\ dc.irq["INT_DSKSYN"] = dcOut.before.irq["INT_DSKSYN"]
                    + (IF match THEN 1 ELSE 0)
              /\ IF match /\ dcOut.before.state = DRIVE_DMA_WAIT
                 THEN dc.state = DRIVE_DMA_READ /\ dc.fifoCount = 0
                 ELSE dc.state = dcOut.before.state /\ Drain(dc) = FifoWithIncoming
    /\ (dcOut.op = "serviceDiskEvent" /\ dcOut.before.selected < 0) =>
          dc = dcOut.before
    /\ (\/ dcOut.op \in {"PRBdidChange", "pokeDSKLEN", "pokeDSKSYNC"}
        \/ dcOut.op = "performDMA" /\ dcOut.before.acceleration = 1) =>
          dc.irq["INT_DSKSYN"] = dcOut.before.irq["INT_DSKSYN"]

SyncFoundWhileWaiting ==
    /\ RotateWhileReading
    /\ dcOut.before.state = DRIVE_DMA_WAIT
    /\ dcOut.before.track = <<\h12, \h34, \h44, \h89>>
    /\ dcOut.before.offset = 3
    /\ dc.incoming = \h89
    /\ dc.syncFlag
    /\ dc.irq["INT_DSKSYN"] = 1
    /\ dc.state = DRIVE_DMA_READ

-----------------------------------------------------------------------------
(* Event tables *)

\* The smallest position after h in the set S of event positions, 0 if none.
NextEventAfter(S, h) ==
    LET later == {i \in S : i > h}
    IN  IF later = {} THEN 0 ELSE CHOOSE i \in later : \A j \in later : i <= j

\* C17: after reset and after every operation that edits an event table,
\* for every h in 0..HPOS_MAX nextBplEvent[h] is the smallest h' > h whose
\* bplEvent entry is not EVENT_NONE, and nextDasEvent[h] the smallest h' > h
\* whose dasEvent entry is not EVENT_NONE; with no later entry it is 0.
JumpTablesPointToNextEvent ==
    LET bpl == {i \in HPositions : tb.bplEvent[i] # 0}
        das == {i \in HPositions : tb.dasEvent[i] # EVENT_NONE}
    IN  \A h \in HPositions :
            /\ tb.nextBplEvent[h] = NextEventAfter(bpl, h)
            /\ tb.nextDasEvent[h] = NextEventAfter(das, h)

TablesWithBitplanesAndSprites ==
    /\ tb.op = "updateDasEvents"
    /\ tb.bplEvent[\h39] = BPL("BPL_L4")
    /\ tb.nextBplEvent[\h39] = \h3A
    /\ tb.bplEvent[3] = 1
    /\ tb.nextBplEvent[0] = 3
    /\ tb.dasEvent[\h15] = "DAS_S0_1"
    /\ tb.nextDasEvent[\h33] = \hDF
    /\ tb.nextDasEvent[\hDF] = 0


-----------------------------------------------------------------------------
(* Bus arbiter *)

\* A position of the current line at which the bitplane table names a fetch
\* and which has been executed
FetchedAt(h) == h < ag.h /\ ag.nHsync > 0 /\ ag.bplEvent[h] \div 4 \in 1..10

\* C11: within a scanline a bus cycle that has an owner is never taken by a
\* different consumer before the hsync handler clears the table, and every
\* executed cycle in which the bitplane table names a fetch is owned by
\* BITPLANE.
BusCycleKeepsItsOwner ==
    /\ ag.overwrote = {}
    /\ \A h \in HPositions : FetchedAt(h) => ag.busOwner[h] = "BUS_BITPLANE"

\* C12: the Copper is granted a cycle only with Copper DMA on and outside
\* position 0xE0: no request is granted otherwise and no cycle at 0xE0 or
\* with Copper DMA off is owned by COPPER.
CopperGrantedOnlyWithDmaOutsideE0 ==
    /\ \A r \in ag.copReqs : r.granted => (r.dma /\ ~r.e0)
    /\ ag.busOwner[\hE0] # "BUS_COPPER"
    /\ \A h \in HPositions : ag.busOwner[h] = "BUS_COPPER" => copdma(ag)

\* C13: a Blitter request is granted iff the cycle is free, Blitter DMA is on
\* and (blitter priority is set or bls is clear); a cycle is owned by BLITTER
\* only with Blitter DMA on.
BlitterGrantedIffEnabledAndNotSlowed ==
    /\ \A r \in ag.bltReqs : r.granted <=> (r.free /\ r.dma /\ (r.pri \/ ~r.bls))
    /\ \A h \in HPositions : ag.busOwner[h] = "BUS_BLITTER" => bltdma(ag)

\* a Blitter request on a free cycle with Blitter DMA on was denied because
\* bls was set and blitter priority clear
BlitterSlowedDown ==
    \E r \in ag.bltReqs : r.free /\ r.dma /\ r.bls /\ ~r.pri /\ r.query /\ ~r.granted

\* C14: after executeUntilBusIsFree, bls is false, the granted cycle is
\* marked BUS_CPU, the wait states charged equal the time of the cycles
\* executed (none iff the cycle before the call's position was free), every
\* cycle executed but the last was denied, and bls was set while a cycle was
\* executed exactly if two cycles had been executed and denied before it.
CpuWaitsUntilBusIsFree ==
    agOut.op = "executeUntilBusIsFree" =>
        LET b    == agOut.before
            posh == IF b.h = 0 THEN HPOS_MAX ELSE b.h - 1
            n    == agOut.delay
            tr   == agOut.trace
        IN  /\ ~ag.bls
            /\ ag.busOwner[agOut.posh] = "BUS_CPU"
            /\ Len(tr) = n
            /\ ag.clock = b.clock + n * DMA_CYCLE
            /\ 4 * (ag.waitStates - b.waitStates) = ag.clock - b.clock
            /\ (n = 0) <=> (b.busOwner[posh] = "BUS_NONE")
            /\ n = 0 => agOut.posh = posh /\ ag = [b EXCEPT !.busOwner[posh] = "BUS_CPU"]
            /\ n > 0 => agOut.posh = tr[n].posh
            /\ \A i \in 1..n : (tr[i].owner = "BUS_NONE") <=> (i = n)
            /\ \A i \in 1..n : tr[i].bls <=> (i >= 3)

\* the CPU waited three cycles or more, so that a cycle was executed with
\* bls set
CpuWaitedWithBlsSet ==
    /\ agOut.op = "executeUntilBusIsFree"
    /\ agOut.delay >= 3

-----------------------------------------------------------------------------
(* Disk controller: DSKLEN writes *)

\* The value and the ADKCON bit 10 of the last DSKLEN write
DsklenWritten   == dcOut.byte % 65536
WordsyncWritten == dcOut.byte >= 65536
Bit15(x) == BitAnd(x, \h8000) # 0
Bit14(x) == BitAnd(x, \h4000) # 0
DmaStates == {DRIVE_DMA_WAIT, DRIVE_DMA_READ, DRIVE_DMA_WRITE}

\* C21: a DSKLEN write changes the state to DMA_WAIT, DMA_READ or DMA_WRITE
\* only if bit 15 is set in the stored dsklen and in the new value; a write
\* with bit 15 set after a dsklen with bit 15 clear leaves the state (which is
\* DMA_OFF) and the FIFO unchanged.
DmaEnabledOnlyWhenArmedTwice ==
    /\ ~Bit15(dc.dsklen) => dc.state = DRIVE_DMA_OFF
    /\ dcOut.op = "pokeDSKLEN" =>
          LET old == dcOut.before.dsklen
              new == DsklenWritten
          IN  /\ dc.dsklen = new
              /\ (dc.state \in DmaStates /\ dc.state # dcOut.before.state) =>
                    (Bit15(old) /\ Bit15(new))
              /\ (Bit15(new) /\ ~Bit15(old)) =>
                    dc = [dcOut.before EXCEPT !.dsklen = new]

\* a first write with bit 15 set has left the controller in DMA_OFF
ArmedOnce ==
    /\ dcOut.op = "pokeDSKLEN"
    /\ Bit15(DsklenWritten) /\ ~Bit15(dcOut.before.dsklen)
    /\ dcOut.before.selected = 0
    /\ dc.state = DRIVE_DMA_OFF

\* C22: after a DSKLEN write that enables DMA the state is DMA_WRITE iff bit
\* 14 is set in the stored and in the new value; otherwise it is DMA_WAIT if
\* ADKCON bit 10 is set and DMA_READ if it is clear.
EnabledStateFollowsWriteBitAndWordsync ==
    (dcOut.op = "pokeDSKLEN" /\ Bit15(dcOut.before.dsklen) /\ Bit15(DsklenWritten)) =>
        dc.state = IF Bit14(dcOut.before.dsklen) /\ Bit14(DsklenWritten)
                   THEN DRIVE_DMA_WRITE
                   ELSE IF WordsyncWritten THEN DRIVE_DMA_WAIT ELSE DRIVE_DMA_READ

\* DMA was enabled with the WRITE bit set in the new value only
WriteBitWrittenOnce ==
    /\ dcOut.op = "pokeDSKLEN"
    /\ dcOut.before.dsklen = \h8002 /\ DsklenWritten = \hC002
    /\ WordsyncWritten
    /\ dc.state = DRIVE_DMA_WAIT

\* C23: a DSKLEN write with bit 15 clear leaves the controller in DMA_OFF
\* with an empty FIFO, and the FIFO is empty after every DSKLEN write that
\* enables DMA.
DsklenWriteClearsFifo ==
    dcOut.op = "pokeDSKLEN" =>
        /\ ~Bit15(DsklenWritten) => (dc.state = DRIVE_DMA_OFF /\ fifoIsEmpty(dc))
        /\ (Bit15(dcOut.before.dsklen) /\ Bit15(DsklenWritten)) =>
              (dc.state \in DmaStates /\ fifoIsEmpty(dc))

\* DMA was switched off while reading with bytes in the FIFO
DmaOffWithBytesInFifo ==
    /\ dcOut.op = "pokeDSKLEN"
    /\ ~Bit15(DsklenWritten)
    /\ dcOut.before.state = DRIVE_DMA_READ
    /\ dcOut.before.fifoCount >= 2
    /\ dc.fifoCount = 0

-----------------------------------------------------------------------------
(* Disk controller: DMA transfers *)

WordCount(d) == BitAnd(d.dsklen, \h3FFF)

\* C24: an operation applied in DMA_WAIT writes no word to memory, and unless
\* it is a DSKLEN write it leaves dsklen, DSKPT and the block interrupt alone
\* and leaves DMA_WAIT only as a rotate event of a selected drive whose
\* incoming byte completes a dsksync match; the state is then DMA_READ and the
\* FIFO is empty.
WaitTransfersNothingUntilSync ==
    dcOut.before.state = DRIVE_DMA_WAIT =>
        /\ dc.mem = dcOut.before.mem
        /\ dcOut.op # "pokeDSKLEN" =>
              /\ dc.dsklen = dcOut.before.dsklen
              /\ dc.dskpt = dcOut.before.dskpt
              /\ dc.irq["INT_DSKBLK"] = dcOut.before.irq["INT_DSKBLK"]
              /\ dc.state # DRIVE_DMA_WAIT =>
                    /\ dcOut.op = "serviceDiskEvent"
                    /\ dcOut.before.selected >= 0
                    /\ SyncMatch(FifoWithIncoming, dc.dsksync)
                    /\ dc.state = DRIVE_DMA_READ
                    /\ dc.fifoCount = 0

\* a DMA slot passed in DMA_WAIT with a word in the FIFO and words to go
DmaSlotWhileWaiting ==
    /\ dcOut.op = "performDMA"
    /\ dcOut.before.state = DRIVE_DMA_WAIT
    /\ dcOut.before.selected >= 0
    /\ fifoHasWord(dcOut.before)
    /\ WordCount(dcOut.before) > 0
    /\ dc.state = DRIVE_DMA_WAIT

\* The k bytes a drive passes under its head starting at offset.
HeadBytes(track, offset, k) ==
    [i \in 1..k |-> track[((offset + i - 1) % Len(track)) + 1]]

\* The number of bytes the head moved during the last operation (fewer than
\* the track holds).
HeadMoved ==
    (dc.offset + Len(dc.track) - dcOut.before.offset) % Len(dc.track)

\* The n words of memory from ptr on, as bytes, high byte first.
MemBytes(mem, ptr, n) ==
    [i \in 1..(2 * n) |->
        LET w == mem[ChipAddr(ptr + 2 * ((i - 1) \div 2))]
        IN  IF i % 2 = 1 THEN HI_BYTE(w) ELSE LO_BYTE(w)]

\* Memory outside the n words from ptr on is the same in m1 and m2.
SameOutside(m1, m2, ptr, n) ==
    \A a \in DOMAIN m1 :
        (a \notin {ChipAddr(ptr + 2 * j) : j \in 0..(n - 1)}) => m1[a] = m2[a]

MinOf(a, b) == IF a < b THEN a ELSE b

\* C25: a DMA slot in DMA_READ with a drive selected, a word count N > 0 and
\* a word in the FIFO transfers n = min(acceleration, N) words: the oldest
\* FIFO bytes, then the bytes read from the drive in between, go to memory
\* at DSKPT in that order, high byte first, DSKPT advances by 2n and dsklen
\* decreases by n; what was in the FIFO or read and is not in memory is in
\* the FIFO afterwards.  If the count reached zero the block interrupt was
\* raised once and the state is DMA_OFF, otherwise no interrupt was raised
\* and the state is DMA_READ.  Without a word in the FIFO the slot changes
\* nothing, and nothing applied in DMA_OFF writes memory.
ReadTransfersFifoWordsInOrder ==
    /\ (dcOut.op = "performDMA" /\ dcOut.before.state = DRIVE_DMA_READ) =>
          LET b == dcOut.before
          IN  IF b.selected >= 0 /\ WordCount(b) > 0 /\ fifoHasWord(b)
              THEN LET n == MinOf(b.acceleration, WordCount(b))
                   IN  /\ dc.dskpt = b.dskpt + 2 * n
                       /\ dc.dsklen = b.dsklen - n
                       /\ SameOutside(b.mem, dc.mem, b.dskpt, n)
                       /\ MemBytes(dc.mem, b.dskpt, n) \o Drain(dc)
                            = Drain(b) \o HeadBytes(b.track, b.offset, HeadMoved)
                       /\ HeadMoved = 2 * (n - 1)
                       /\ IF WordCount(dc) = 0
                          THEN /\ dc.state = DRIVE_DMA_OFF
                               /\ dc.irq["INT_DSKBLK"] = b.irq["INT_DSKBLK"] + 1
                          ELSE /\ dc.state = DRIVE_DMA_READ
                               /\ dc.irq["INT_DSKBLK"] = b.irq["INT_DSKBLK"]
              ELSE dc = b
    /\ dcOut.before.state = DRIVE_DMA_OFF =>
          /\ dc.mem = dcOut.before.mem
          /\ dc.irq["INT_DSKBLK"] = dcOut.before.irq["INT_DSKBLK"]

\* an accelerated slot transferred a block of two words, the second one read
\* from the drive during the slot
ReadBlockCompleted ==
    /\ dcOut.op = "performDMA"
    /\ dcOut.before.state = DRIVE_DMA_READ
    /\ dcOut.before.acceleration = 2
    /\ WordCount(dcOut.before) = 2
    /\ dcOut.before.dskpt = 0
    /\ dcOut.before.fifoCount = 2
    /\ dc.state = DRIVE_DMA_OFF
    /\ dc.irq["INT_DSKBLK"] = 1
    /\ dc.mem[0] = \h1234 /\ dc.mem[1] = \h4489
    /\ dc.dskpt = 4

\* C26: with a drive selected, a DMA slot in DMA_WRITE fetches memory words
\* only if the word count is not zero and the FIFO can store a word, and
\* then fetches n = min(acceleration, N) words from DSKPT on; the bytes that
\* were in the FIFO followed by the fetched words, high byte first, are the
\* bytes written to the drive during the operation followed by the bytes
\* left in the FIFO, the drive being written at consecutive positions from
\* its head on and nowhere else.  When the count reaches zero the block
\* interrupt is raised once, the FIFO is empty and the state is DMA_OFF;
\* otherwise the state stays DMA_WRITE and no interrupt is raised.  A rotate
\* event in DMA_WRITE writes the oldest FIFO byte to the drive, if any.
WriteTransfersMemoryWordsInOrder ==
    (dcOut.before.state = DRIVE_DMA_WRITE
        /\ dcOut.op \in {"performDMA", "serviceDiskEvent"}) =>
        LET b == dcOut.before
            n == (dc.dskpt - b.dskpt) \div 2
            k == b.fifoCount + 2 * n - dc.fifoCount
            fetch == dcOut.op = "performDMA" /\ WordCount(b) > 0
                        /\ fifoCanStoreWord(b)
        IN  IF b.selected < 0 THEN dc = b
            ELSE /\ n = IF fetch THEN MinOf(b.acceleration, WordCount(b)) ELSE 0
                 /\ dc.dsklen = b.dsklen - n
                 /\ dc.mem = b.mem
                 /\ k \in 0..Len(b.track)
                 /\ dcOut.op = "serviceDiskEvent" =>
                        k = IF fifoIsEmpty(b) THEN 0 ELSE 1
                 /\ dc.offset = (b.offset + k) % Len(b.track)
                 /\ Drain(b) \o MemBytes(b.mem, b.dskpt, n)
                        = HeadBytes(dc.track, b.offset, k) \o Drain(dc)
                 /\ \A i \in 1..Len(b.track) :
                        (i \notin {((b.offset + j) % Len(b.track)) + 1 : j \in 0..(k - 1)})
                            => dc.track[i] = b.track[i]
                 /\ IF fetch /\ WordCount(dc) = 0
                    THEN /\ dc.state = DRIVE_DMA_OFF
                         /\ fifoIsEmpty(dc)
                         /\ dc.irq["INT_DSKBLK"] = b.irq["INT_DSKBLK"] + 1
                    ELSE /\ dc.state = DRIVE_DMA_WRITE
                         /\ dc.irq["INT_DSKBLK"] = b.irq["INT_DSKBLK"]

\* a block of two words was written in two slots: the track holds the two
\* memory words, high bytes first
WriteBlockCompleted ==
    /\ dcOut.op = "performDMA"
    /\ dcOut.before.state = DRIVE_DMA_WRITE
    /\ dcOut.before.acceleration = 1
    /\ WordCount(dcOut.before) = 1
    /\ dcOut.before.dskpt = 2
    /\ fifoIsEmpty(dcOut.before)
    /\ dcOut.before.track = <<\h44, \h89, \h44, \h89>>
    /\ dc.state = DRIVE_DMA_OFF
    /\ dc.irq["INT_DSKBLK"] = 1
    /\ dc.track = <<\h44, \h89, \h12, \h34>>
    /\ dc.offset = 0

-----------------------------------------------------------------------------
(* Disk controller: turbo drives *)

\* C27: a DSKLEN write with a turbo drive selected that enables DMA (bit 15
\* in the stored and in the new value) with a word count N > 0 returns in
\* DMA_OFF with DSKPT advanced by 2N and the N words transferred: in write
\* mode the 2N bytes of memory from DSKPT on are on the drive from its head
\* on, in read mode the N words of memory from DSKPT on are 2N consecutive
\* bytes of the track ending at the head (starting at the old head position
\* unless a sync mark was searched for first).  The block interrupt is not
\* raised by the write but posted once with a delay of 512 DMA cycles.  Any
\* other DSKLEN write transfers nothing and posts nothing.
TurboTransfersOnDsklenWrite ==
    (dcOut.op = "pokeDSKLEN" /\ dcOut.before.turbo /\ dcOut.before.selected >= 0) =>
        LET b == dcOut.before
            n == WordCount([dsklen |-> DsklenWritten])
            len == Len(b.track)
            write == Bit14(b.dsklen) /\ Bit14(DsklenWritten)
        IN  /\ dc.irq = b.irq
            /\ dc.dsklen = DsklenWritten
            /\ IF Bit15(b.dsklen) /\ Bit15(DsklenWritten) /\ n > 0
               THEN /\ dc.state = DRIVE_DMA_OFF
                    /\ dc.dskpt = b.dskpt + 2 * n
                    /\ dc.posted = Append(b.posted, <<"INT_DSKBLK", DMA_CYCLES(512)>>)
                    /\ IF write
                       THEN /\ dc.mem = b.mem
                            /\ dc.offset = (b.offset + 2 * n) % len
                            /\ HeadBytes(dc.track, b.offset, 2 * n)
                                  = MemBytes(b.mem, b.dskpt, n)
                       ELSE /\ dc.track = b.track
                            /\ SameOutside(b.mem, dc.mem, b.dskpt, n)
                            /\ MemBytes(dc.mem, b.dskpt, n)
                                  = HeadBytes(b.track, dc.offset + 2 * len - 2 * n, 2 * n)
                            /\ ~WordsyncWritten => dc.offset = (b.offset + 2 * n) % len
               ELSE /\ dc.posted = b.posted
                    /\ dc.mem = b.mem
                    /\ dc.dskpt = b.dskpt
                    /\ dc.track = b.track /\ dc.offset = b.offset

\* a turbo drive found the sync mark 44 89 at the end of the track and read
\* the word after it
TurboReadAfterSync ==
    /\ dcOut.op = "pokeDSKLEN"
    /\ dcOut.before.turbo /\ dcOut.before.selected >= 0
    /\ DsklenWritten = \h8001 /\ WordsyncWritten
    /\ dcOut.before.track = <<\h12, \h34, \h44, \h89>>
    /\ dcOut.before.offset = 0
    /\ dcOut.before.dskpt = 0
    /\ dc.mem[0] = \h1234
    /\ dc.offset = 2
    /\ dc.state = DRIVE_DMA_OFF
    /\ dc.irq["INT_DSKBLK"] = 0
    /\ Len(dc.posted) = 1

-----------------------------------------------------------------------------
(* Drive bay *)

RotateEventCancelled ==
    /\ dvOut.op = "PRBdidChange"
    /\ spinning(dvOut.before) /\ ~spinning(dv)
    /\ ~hasEvent(dv, "DSK_SLOT")

\* C29: a PRB change leaves the motor of every drive unchanged whose select
\* bit has no falling edge, and no other operation changes a motor; on a
\* falling edge the motor of a connected drive is on if /MTR is low in the
\* old or the new value and off otherwise.  After a PRB change the one
\* drive recorded as selected is connected and has its select bit low, and
\* none is recorded only if no connected drive has its select bit low.
MotorChangesOnlyOnFallingSelectEdge ==
    /\ dv.selected \in -1..(NumDrives - 1)
    /\ dvOut.op # "PRBdidChange" => dv.motor = dvOut.before.motor
    /\ dvOut.op = "PRBdidChange" =>
          LET old == dvOut.before.prb
              new == dv.prb
              edge(nr) == BitAnd(old, SelMask(nr)) # 0 /\ BitAnd(new, SelMask(nr)) = 0
          IN  /\ \A nr \in DriveNrs :
                    IF edge(nr) /\ dv.connected[nr]
                    THEN dv.motor[nr] <=> (BitAnd(old, \h80) = 0 \/ BitAnd(new, \h80) = 0)
                    ELSE dv.motor[nr] = dvOut.before.motor[nr]
              /\ IF dv.selected >= 0
                 THEN dv.connected[dv.selected] /\ isSelected(new, dv.selected)
                 ELSE \A nr \in DriveNrs : ~(dv.connected[nr] /\ isSelected(new, nr))

\* /MTR went low while df0 stayed selected: the motor stayed off; two drives
\* have their select bits low
MotorLineChangedWhileSelected ==
    /\ dvOut.op = "PRBdidChange"
    /\ isSelected(dvOut.before.prb, 0) /\ isSelected(dv.prb, 0)
    /\ isSelected(dv.prb, 1) /\ dv.connected[1]
    /\ BitAnd(dvOut.before.prb, \h80) # 0 /\ BitAnd(dv.prb, \h80) = 0
    /\ ~dv.motor[0]
    /\ dv.selected = 1

\* C30: insertDisk always schedules the insertion: DCH_INSERT for the drive,
\* with the disk kept in diskToInsert, after the requested delay if the drive
\* was empty and after max(requested delay, 1.5 s) if it held a disk, which
\* is ejected at once; the other drives keep their disks.  Whenever a
\* DCH_INSERT event is served, the target drive is empty and a disk is
\* waiting; afterwards the drive holds that disk and the slot is empty.
InsertDiskSwapsAfterMinimumDelay ==
    /\ dvOut.op = "insertDisk" =>
          LET b     == dvOut.before
              disk  == dvOut.arg[1]
              nr    == dvOut.arg[2]
              delay == dvOut.arg[3]
          IN  /\ dv.slot["DCH_SLOT"] =
                    Slot(b.clock + (IF hasDisk(b, nr)
                                    THEN MaxOf(delay, MinSwapDelay) ELSE delay),
                         "DCH_INSERT")
              /\ dv.dchData = nr
              /\ dv.diskToInsert = disk
              /\ ~hasDisk(dv, nr)
              /\ \A n \in DriveNrs \ {nr} : dv.disk[n] = b.disk[n]
    /\ (dvOut.op = "serviceDiskChangeEvent"
            /\ dvOut.before.slot["DCH_SLOT"].id = "DCH_INSERT") =>
          LET b  == dvOut.before
              nr == b.dchData
          IN  /\ ~hasDisk(b, nr)
              /\ b.diskToInsert # "NULL"
              /\ dv.disk[nr] = b.diskToInsert
              /\ dv.diskToInsert = "NULL"
              /\ ~hasEvent(dv, "DCH_SLOT")

\* a disk asked to be inserted at once into the drive that held disk1 arrived
\* 1.5 s later
DiskSwappedAfterMinimumDelay ==
    /\ dvOut.op = "serviceDiskChangeEvent"
    /\ dvOut.before.slot["DCH_SLOT"].id = "DCH_INSERT"
    /\ dv.clock = MinSwapDelay
    /\ dv.disk[0] = "disk2"
    /\ dv.disk[1] = "NULL"

-----------------------------------------------------------------------------
(* Data-fetch window *)

\* A horizontal sync was served after a line without register writes, on
\* the base chipset, with DDFSTRT small and DDFSTOP behind it in the line
EarlyAccessLine ==
    /\ ddOut.op = "hsync"
    /\ dd.isOCS
    /\ dd.writes > 0
    /\ ~ddOut.before.wrote
    /\ dd.ddfstrt < \h18
    /\ dd.ddfstop >= \h18 /\ dd.ddfstop < HPOS_CNT

EarlyAccessNeverTwoLinesInARow ==
    EarlyAccessLine => (ddOut.before.ddf.empty \/ dd.ddf.empty)

\* C31: on OCS, while DDFSTRT stays below 0x18, two consecutive lines never
\* both get a computed window and the lines alternate between the empty
\* window and a computed one.
EarlyAccessLinesAlternate ==
    EarlyAccessLine => (ddOut.before.ddf.empty # dd.ddf.empty)

\* C32: on OCS a computed window follows the table over the kinds of
\* DDFSTRT and DDFSTOP: [DDFSTRT;DDFSTOP] for medium/medium, [DDFSTRT;0xD8]
\* for medium/large, and the empty window when DDFSTRT is large or when
\* DDFSTRT is medium and DDFSTOP is small.
OcsWindowFollowsTable ==
    (dd.isOCS /\ dd.computed) =>
        LET strt == DdfKind(dd.ddfstrtReached)
            stop == DdfKind(dd.ddfstopReached)
        IN  /\ (strt = 1 /\ stop = 1) =>
                   dd.ddf = DdfCompute(dd.ddfstrtReached, dd.ddfstopReached)
            /\ (strt = 1 /\ stop = 2) =>
                   dd.ddf = DdfCompute(dd.ddfstrtReached, \hD8)
            /\ (strt = 1 /\ stop = 0) => dd.ddf.empty
            /\ strt = 2 => dd.ddf.empty

OcsMediumStartFollowsTable ==
    (dd.isOCS /\ dd.computed /\ DdfKind(dd.ddfstrtReached) = 1) =>
        OcsWindowFollowsTable

\* The state before the last step ran computeDDFWindow on the enhanced chipset
EcsComputed == ~dd.isOCS /\ dd.computed

\* C33: on ECS the fetch state after a window computation is DDF_ON exactly
\* when DDFSTOP is not reached and DDFSTRT is small or medium or the state
\* was DDF_ON already; a window computed in state DDF_ON is empty or starts
\* at 0x18; a reachable DDFSTOP turns the state to DDF_OFF.
EcsFetchStateFollowsTable ==
    EcsComputed =>
        LET strt == DdfKind(dd.ddfstrtReached)
            stop == DdfKind(dd.ddfstopReached)
            wasOn == dd.stateAtCompute = DDF_ON
        IN  /\ dd.ddfState = DDF_ON <=> (stop = 2 /\ (strt \in {0, 1} \/ wasOn))
            /\ wasOn => (dd.ddf.empty \/ dd.ddf.strt = \h18)
            /\ stop # 2 => dd.ddfState = DDF_OFF

\* A window was computed in state DDF_ON with a medium DDFSTRT and a
\* DDFSTOP that is reached: it starts at 0x18 and the state is off again
EcsWindowComputedWhileOn ==
    /\ EcsComputed
    /\ dd.stateAtCompute = DDF_ON
    /\ DdfKind(dd.ddfstrtReached) = 1
    /\ DdfKind(dd.ddfstopReached) = 1
    /\ dd.ddf = DdfCompute(\h18, dd.ddfstopReached)
    /\ dd.ddfState = DDF_OFF

-----------------------------------------------------------------------------
(* Inspection *)

\* DiskController::getInfo returns the snapshot _inspect took
DiskQueriesReturnSnapshots ==
    insp.last.target = "disk" => insp.last.result \in insp.last.seen

\* C34: a query never returns a torn result: what getInfo of the disk
\* controller or the Copper returns is what the component looked like at one
\* instant, whatever the emulator thread does meanwhile.
QueriesReturnSnapshots ==
    insp.last.target # "none" => insp.last.result \in insp.last.seen

-----------------------------------------------------------------------------
(* Disk controller: FIFO preconditions and the flush state *)

\* C35: no assert on the FIFO ever fails: readFifo is called with
\* fifoCount > 0 only, readFifo16 with fifoCount >= 2 only, and performDMAWrite
\* pushes a word with fifoCount <= 4 only, in the accelerated loops too.
FifoPreconditionsHold == dc.asserts

\* An accelerated read has taken two words from the FIFO in one call
AcceleratedReadTookTwoWords ==
    /\ dcOut.op = "performDMA"
    /\ dcOut.before.state = DRIVE_DMA_READ
    /\ dcOut.before.acceleration = 2
    /\ WordCount(dcOut.before) = 2
    /\ dcOut.before.fifoCount = 2
    /\ WordCount(dc) = 0
    /\ dc.dskpt = dcOut.before.dskpt + 4
    /\ dc.asserts

\* C36: the disk controller is never in DMA_FLUSH: a write that completes
\* goes from DMA_WRITE to DMA_OFF within the DMA call.
NeverInDmaFlush ==
    /\ dc.state # DRIVE_DMA_FLUSH
    /\ (dcOut.op = "performDMA" /\ dcOut.before.state = DRIVE_DMA_WRITE
        /\ WordCount(dcOut.before) > 0 /\ WordCount(dc) = 0)
           => dc.state = DRIVE_DMA_OFF

\* An accelerated write has completed its block of two words
AcceleratedWriteCompleted ==
    /\ dcOut.op = "performDMA"
    /\ dcOut.before.state = DRIVE_DMA_WRITE
    /\ dcOut.before.acceleration = 2
    /\ WordCount(dcOut.before) = 2
    /\ WordCount(dc) = 0
    /\ dc.state = DRIVE_DMA_OFF
    /\ fifoIsEmpty(dc)

-----------------------------------------------------------------------------
(* Bus arbiter: the allocation table and the beam *)

\* C37: at every cycle boundary busOwner[h] is BUS_NONE for every h behind
\* the beam position in the line (h > pos.h), also after
\* executeUntilBusIsFree has marked the cycle of the CPU.
BusOwnerNoneBehindBeam ==
    \A h \in 0..HPOS_MAX : h > ag.h => ag.busOwner[h] = "BUS_NONE"

\* Within a line the table is empty from the beam position on
BusOwnerNoneWithinLine ==
    ag.h > 0 => \A h \in 0..HPOS_MAX : h >= ag.h => ag.busOwner[h] = "BUS_NONE"

-----------------------------------------------------------------------------
(* Drive bay: pending disk changes *)

\* insertDisk(disk, nr, delay) has just been called, early enough for its
\* event to be served within the time explored
InsertRequested(disk, nr) ==
    /\ dvOut.op = "insertDisk"
    /\ dvOut.arg[1] = disk
    /\ dvOut.arg[2] = nr
    /\ dv.slot["DCH_SLOT"].triggerCycle <= SEC(MaxDchSecs)

\* C38: a requested insertion is never lost: after insertDisk(disk, nr, delay)
\* the disk is eventually in drive nr, whatever ejectDisk or insertDisk calls
\* are made before the disk-change event is served.
RequestedDiskIsInserted ==
    \A disk \in Disks, nr \in DchDrives :
        InsertRequested(disk, nr) ~> (dv.disk[nr] = disk)

\* A call made while a DCH_INSERT event is pending keeps that event
PendingInsertIsKept ==
    LET b == dvOut.before
    IN  (dvOut.op \in {"insertDisk", "ejectDisk"}
           /\ hasEvent(b, "DCH_SLOT") /\ b.slot["DCH_SLOT"].id = "DCH_INSERT")
        => /\ dv.slot["DCH_SLOT"] = b.slot["DCH_SLOT"]
           /\ dv.dchData = b.dchData
           /\ dv.diskToInsert = b.diskToInsert

-----------------------------------------------------------------------------
(* Drive: sync marks *)

\* The pair 0x44 0x89 begins k bytes behind offset start of the track
SyncPairAt(track, start, k) ==
    /\ track[((start + k) % Len(track)) + 1] = \h44
    /\ track[((start + k + 1) % Len(track)) + 1] = \h89

HasSyncPair(track, start) == \E k \in 0..(Len(track) - 1) : SyncPairAt(track, start, k)

FirstSyncPair(track, start) ==
    CHOOSE k \in 0..(Len(track) - 1) :
        /\ SyncPairAt(track, start, k)
        /\ \A j \in 0..(k - 1) : ~SyncPairAt(track, start, j)

\* C39: if the track holds the pair 0x44 0x89, findSyncMark leaves the head
\* right behind the first such pair at or after the offset it started at,
\* whatever the track holds.
FindSyncMarkStopsBehindFirstPair ==
    (dcOut.op = "findSyncMark"
        /\ HasSyncPair(dcOut.before.track, dcOut.before.offset)) =>
        dc.offset = (dcOut.before.offset
                       + FirstSyncPair(dcOut.before.track, dcOut.before.offset) + 2)
                    % Len(dc.track)

\* The same for tracks in which no 0x44 is followed by a 0x44
FindSyncMarkStopsBehindFirstPairOfPlainTracks ==
    (\A i \in 0..(SyncTrackSize - 1) :
        ~(dcOut.before.track[i + 1] = \h44
            /\ dcOut.before.track[((i + 1) % SyncTrackSize) + 1] = \h44))
    => FindSyncMarkStopsBehindFirstPair

-----------------------------------------------------------------------------
(* Drive: the disk-change signal *)

=========================================================================
